---- MODULE Spec2Model ----
(***************************************************************************)
(* Model of the undercover-game service layer: GameLogic (pure rules and   *)
(* the static turn-ordering cache), GameService / GameActionService (the   *)
(* action dispatcher) and GameStateManager (state, history, undo).         *)
(*                                                                         *)
(* JavaScript objects are modelled with an explicit heap: a GameState      *)
(* holds player REFERENCES (indices into heap); `[...players]` copies the  *)
(* array of references, not the Player objects, and `{...state}` copies    *)
(* the top-level fields only.                                              *)
(***************************************************************************)
EXTENDS Integers, Sequences, FiniteSets, TLC

\* ------------------------------------------------------------------------
\* Bounds
\* ------------------------------------------------------------------------
MaxRoster == 3      \* largest roster drawn for the pure GameLogic functions
MaxPlayers == 3     \* largest totalPlayers offered to startNewGame
MaxCalls == 2       \* calls made on a manager (executeAction, undo)
MaxWords == 1       \* word pairs of the default list that are in the store

\* ------------------------------------------------------------------------
\* Values
\* ------------------------------------------------------------------------
\* JavaScript null for the numeric fields (selectedCard, startPlayerId,
\* selectedPlayerToEliminate) and for object references (eliminatedPlayer)
Null == 0 - 2
\* JavaScript null for the winner field
NoWinner == "null"

Roles == {"civilian", "undercover", "mrwhite"}

\* Strings are sequences of one-character strings so that trim() and
\* toLowerCase() can be computed.
Apel == <<"A", "p", "e", "l">>
Jeruk == <<"J", "e", "r", "u", "k">>
Kucing == <<"K", "u", "c", "i", "n", "g">>
Anjing == <<"A", "n", "j", "i", "n", "g">>
defaultWords == << [civilian |-> Apel, undercover |-> Jeruk],
                   [civilian |-> Kucing, undercover |-> Anjing] >>

Range(s) == {s[i] : i \in DOMAIN s}

Rep(n, x) == [i \in 1..n |-> x]

Count(s, x) == Cardinality({i \in DOMAIN s : s[i] = x})

\* Array.prototype.filter
Filter(s, Keep(_)) ==
  LET F[i \in 0..Len(s)] ==
        IF i = 0 THEN <<>>
        ELSE IF Keep(s[i]) THEN Append(F[i - 1], s[i]) ELSE F[i - 1]
  IN F[Len(s)]

\* Array.prototype.findIndex, 0-based, -1 when nothing matches
FindIndex(s, Test(_)) ==
  LET hits == {i \in DOMAIN s : Test(s[i])}
  IN IF hits = {} THEN 0 - 1
     ELSE (CHOOSE i \in hits : \A j \in hits : i <= j) - 1

\* ------------------------------------------------------------------------
\* GameLogic: pure functions over Player records
\* ------------------------------------------------------------------------

\* the roles array with the civilians counted as totalPlayers - undercover
\* (Mr. White not subtracted)
RoleArray_MrWhiteNotSubtracted(totalPlayers, undercover, mrWhite) ==
  LET civilians == totalPlayers - undercover
  IN Rep(undercover, "undercover") \o Rep(mrWhite, "mrwhite")
       \o Rep(IF civilians > 0 THEN civilians ELSE 0, "civilian")

\* the roles array of generatePlayers before it is shuffled
RoleArray(totalPlayers, undercover, mrWhite) ==
  LET civilians == totalPlayers - undercover - mrWhite
  IN Rep(undercover, "undercover") \o Rep(mrWhite, "mrwhite")
       \o Rep(IF civilians > 0 THEN civilians ELSE 0, "civilian")

\* every outcome of the Fisher-Yates shuffle of an array: its permutations
ShuffleOutcomes(arr) ==
  {s \in [1..Len(arr) -> Range(arr)] :
     \A r \in Range(arr) : Count(s, r) = Count(arr, r)}

\* generatePlayers, for one outcome `roles` of the shuffle
generatePlayers(totalPlayers, gameWords, roles) ==
  [i \in 1..totalPlayers |->
     [id |-> i,
      name |-> <<>>,
      role |-> roles[i],
      word |-> IF roles[i] = "civilian" THEN gameWords.civilian
               ELSE IF roles[i] = "undercover" THEN gameWords.undercover
               ELSE <<>>,
      cardIndex |-> 0 - 1,
      hasRevealed |-> FALSE,
      isEliminated |-> FALSE,
      isReady |-> FALSE]]

getActivePlayers(players) == Filter(players, LAMBDA p : ~p.isEliminated)

\* checkWinConditions with the sole-survivor test reduced to "a Mr. White is
\* active" (the activePlayers.length === 1 conjunct lost)
checkWinConditions_AnyMrWhite(players) ==
  LET activePlayers == Filter(players, LAMBDA p : ~p.isEliminated)
      activeCivilians == Filter(activePlayers, LAMBDA p : p.role = "civilian")
      activeUndercover == Filter(activePlayers, LAMBDA p : p.role = "undercover")
      activeMrWhite == Filter(activePlayers, LAMBDA p : p.role = "mrwhite")
  IN IF Len(activeMrWhite) = 1 THEN "mrwhite"
     ELSE IF Len(activeUndercover) = 0
          THEN (IF Len(activeMrWhite) > 0 THEN NoWinner ELSE "civilian")
     ELSE IF Len(activeUndercover) >= Len(activeCivilians)
             /\ Len(activeMrWhite) = 0
          THEN "undercover"
     ELSE NoWinner

\* checkWinConditions with the undercover majority test strict (> for >=)
checkWinConditions_StrictMajority(players) ==
  LET activePlayers == Filter(players, LAMBDA p : ~p.isEliminated)
      activeCivilians == Filter(activePlayers, LAMBDA p : p.role = "civilian")
      activeUndercover == Filter(activePlayers, LAMBDA p : p.role = "undercover")
      activeMrWhite == Filter(activePlayers, LAMBDA p : p.role = "mrwhite")
  IN IF Len(activePlayers) = 1 /\ Len(activeMrWhite) = 1 THEN "mrwhite"
     ELSE IF Len(activeUndercover) = 0
          THEN (IF Len(activeMrWhite) > 0 THEN NoWinner ELSE "civilian")
     ELSE IF Len(activeUndercover) > Len(activeCivilians)
             /\ Len(activeMrWhite) = 0
          THEN "undercover"
     ELSE NoWinner

\* checkWinConditions without the rule for Mr. White as the last player
checkWinConditions_NoLastStanding(players) ==
  LET activePlayers == Filter(players, LAMBDA p : ~p.isEliminated)
      activeCivilians == Filter(activePlayers, LAMBDA p : p.role = "civilian")
      activeUndercover == Filter(activePlayers, LAMBDA p : p.role = "undercover")
      activeMrWhite == Filter(activePlayers, LAMBDA p : p.role = "mrwhite")
  IN IF Len(activeUndercover) = 0
     THEN (IF Len(activeMrWhite) > 0 THEN NoWinner ELSE "civilian")
     ELSE IF Len(activeUndercover) >= Len(activeCivilians)
             /\ Len(activeMrWhite) = 0
          THEN "undercover"
     ELSE NoWinner

checkWinConditions(players) ==
  LET activePlayers == Filter(players, LAMBDA p : ~p.isEliminated)
      activeCivilians == Filter(activePlayers, LAMBDA p : p.role = "civilian")
      activeUndercover == Filter(activePlayers, LAMBDA p : p.role = "undercover")
      activeMrWhite == Filter(activePlayers, LAMBDA p : p.role = "mrwhite")
  IN IF Len(activePlayers) = 1 /\ Len(activeMrWhite) = 1 THEN "mrwhite"
     ELSE IF Len(activeUndercover) = 0
          THEN (IF Len(activeMrWhite) > 0 THEN NoWinner ELSE "civilian")
     ELSE IF Len(activeUndercover) >= Len(activeCivilians)
             /\ Len(activeMrWhite) = 0
          THEN "undercover"
     ELSE NoWinner

\* isCardAvailable with the test inverted (some for !some)
isCardAvailable_Inverted(players, cardIndex) ==
  \E i \in DOMAIN players : players[i].cardIndex = cardIndex

isCardAvailable(players, cardIndex) ==
  ~ \E i \in DOMAIN players : players[i].cardIndex = cardIndex

\* [...players].sort((a, b) => a.id - b.id): a stable insertion sort
RECURSIVE InsertById(_, _)
InsertById(sorted, p) ==
  IF sorted = <<>> THEN <<p>>
  ELSE IF p.id < Head(sorted).id THEN <<p>> \o sorted
       ELSE <<Head(sorted)>> \o InsertById(Tail(sorted), p)

RECURSIVE SortById(_)
SortById(players) ==
  IF players = <<>> THEN <<>>
  ELSE InsertById(SortById(SubSeq(players, 1, Len(players) - 1)),
                  players[Len(players)])

\* the candidates of the random start player when the cache is empty
StartCandidates(players) ==
  LET nonMrWhitePlayers == Filter(players, LAMBDA p : p.role # "mrwhite")
  IN IF Len(nonMrWhitePlayers) = 0
     THEN {players[i].id : i \in DOMAIN players}
     ELSE {nonMrWhitePlayers[i].id : i \in DOMAIN nonMrWhitePlayers}

\* getDescriptionPhaseOrder that rotates forward whatever the direction
DescriptionOrderFrom_ForwardOnly(players, startId, forward) ==
  LET sortedPlayers == SortById(players)
      n == Len(sortedPlayers)
      startIndex == FindIndex(sortedPlayers, LAMBDA p : p.id = startId)
      rotated == [i \in 1..n |->
                    sortedPlayers[((startIndex + (i - 1)) % n) + 1]]
      nonMrWhiteIndex == FindIndex(rotated, LAMBDA p : p.role # "mrwhite")
  IN IF players = <<>> THEN <<>>
     ELSE IF startIndex = 0 - 1 THEN sortedPlayers
     ELSE IF rotated[1].role = "mrwhite" /\ nonMrWhiteIndex > 0
          THEN [i \in 1..n |->
                  IF i = 1 THEN rotated[nonMrWhiteIndex + 1]
                  ELSE IF i = nonMrWhiteIndex + 1 THEN rotated[1]
                  ELSE rotated[i]]
     ELSE rotated

\* the body of getDescriptionPhaseOrder once startPlayerId / isForward are
\* set: rotation from the start player, then the Mr. White adjustment
DescriptionOrderFrom(players, startId, forward) ==
  LET sortedPlayers == SortById(players)
      n == Len(sortedPlayers)
      startIndex == FindIndex(sortedPlayers, LAMBDA p : p.id = startId)
      rotated == [i \in 1..n |->
                    IF forward
                    THEN sortedPlayers[((startIndex + (i - 1)) % n) + 1]
                    ELSE LET index == startIndex - (i - 1)
                         IN sortedPlayers[(IF index < 0 THEN n + index
                                           ELSE index) + 1]]
      nonMrWhiteIndex == FindIndex(rotated, LAMBDA p : p.role # "mrwhite")
  IN IF players = <<>> THEN <<>>
     ELSE IF startIndex = 0 - 1 THEN sortedPlayers
     ELSE IF rotated[1].role = "mrwhite" /\ nonMrWhiteIndex > 0
          THEN [i \in 1..n |->
                  IF i = 1 THEN rotated[nonMrWhiteIndex + 1]
                  ELSE IF i = nonMrWhiteIndex + 1 THEN rotated[1]
                  ELSE rotated[i]]
     ELSE rotated

\* getVotingPhaseOrder with the two blocks exchanged (eliminated first)
VotingOrderFrom_EliminatedFirst(descriptionOrder) ==
  Filter(descriptionOrder, LAMBDA p : p.isEliminated)
    \o Filter(descriptionOrder, LAMBDA p : ~p.isEliminated)

\* getVotingPhaseOrder applied to a description order
VotingOrderFrom(descriptionOrder) ==
  Filter(descriptionOrder, LAMBDA p : ~p.isEliminated)
    \o Filter(descriptionOrder, LAMBDA p : p.isEliminated)

\* validateGameConfig accepting as many special roles as civilians (< for <=)
validateGameConfig_AllowTie(totalPlayers, undercover, mrWhite) ==
  LET civilians == totalPlayers - undercover - mrWhite
  IN IF totalPlayers < 3 THEN "At least 3 players are required"
     ELSE IF civilians < 2 THEN "At least 2 civilians are required"
     ELSE IF undercover + mrWhite = 0
          THEN "At least one undercover agent or Mr. White is required"
     ELSE IF civilians < undercover + mrWhite
          THEN "Civilians must outnumber undercover agents and Mr. White combined"
     ELSE "valid"

validateGameConfig(totalPlayers, undercover, mrWhite) ==
  LET civilians == totalPlayers - undercover - mrWhite
  IN IF totalPlayers < 3 THEN "At least 3 players are required"
     ELSE IF civilians < 2 THEN "At least 2 civilians are required"
     ELSE IF undercover + mrWhite = 0
          THEN "At least one undercover agent or Mr. White is required"
     ELSE IF civilians <= undercover + mrWhite
          THEN "Civilians must outnumber undercover agents and Mr. White combined"
     ELSE "valid"

\* ------------------------------------------------------------------------
\* Strings
\* ------------------------------------------------------------------------
RECURSIVE TrimStart(_)
TrimStart(s) ==
  IF s # <<>> /\ Head(s) = " " THEN TrimStart(Tail(s)) ELSE s

RECURSIVE TrimEnd(_)
TrimEnd(s) ==
  IF s # <<>> /\ s[Len(s)] = " " THEN TrimEnd(SubSeq(s, 1, Len(s) - 1)) ELSE s

\* String.prototype.trim
trim(s) == TrimEnd(TrimStart(s))

LowerChar(c) ==
  CASE c = "A" -> "a" [] c = "E" -> "e" [] c = "J" -> "j" [] c = "K" -> "k"
    [] c = "L" -> "l" [] c = "P" -> "p" [] OTHER -> c

\* String.prototype.toLowerCase
toLowerCase(s) == [i \in DOMAIN s |-> LowerChar(s[i])]

\* ------------------------------------------------------------------------
\* Heap of Player objects
\* ------------------------------------------------------------------------
\* the Player objects an array of references denotes
Deref(h, refs) == [i \in DOMAIN refs |-> h[refs[i]]]

\* references of `n` objects allocated on top of heap h
NewRefs(h, n) == [i \in 1..n |-> Len(h) + i]

\* a state with every reference replaced by the object it denotes now
DeepState(gs, h) ==
  [gs EXCEPT !.players = Deref(h, gs.players),
             !.eliminatedPlayer = IF gs.eliminatedPlayer = Null THEN <<>>
                                  ELSE <<h[gs.eliminatedPlayer]>>]

\* ------------------------------------------------------------------------
\* GameService
\* ------------------------------------------------------------------------
\* results of the GameService functions: a state and the heap after the
\* call, or the message of the Error thrown
Returned(gs, h) == [thrown |-> "", state |-> gs, heap |-> h]
Thrown(msg, gs, h) == [thrown |-> msg, state |-> gs, heap |-> h]

GameService_resetGame ==
  [phase |-> "setup",
   undercoverCount |-> 0,
   mrWhiteCount |-> 0,
   currentPlayerIndex |-> 0,
   selectedCard |-> Null,
   players |-> <<>>,
   round |-> 1,
   gameWords |-> [civilian |-> <<>>, undercover |-> <<>>],
   selectedPlayerToEliminate |-> Null,
   eliminatedPlayer |-> Null,
   winner |-> NoWinner,
   mrWhiteGuess |-> <<>>,
   showingWord |-> FALSE]

\* initializeGame; gameWords is the pair getRandomUnplayedWord returned
\* (<<>> when it returned null: a one-element sequence otherwise) and
\* `roles` the outcome of the shuffle in generatePlayers
GameService_initializeGame(config, h, gameWords, roles) ==
  LET validation == validateGameConfig(config.totalPlayers, config.undercover,
                                       config.mrWhite)
      players == generatePlayers(config.totalPlayers, gameWords[1], roles)
  IN IF validation # "valid" THEN Thrown(validation, GameService_resetGame, h)
     ELSE IF gameWords = <<>>
          THEN Thrown("No available word pairs", GameService_resetGame, h)
     ELSE Returned(
            [phase |-> "card-selection",
             undercoverCount |-> config.undercover,
             mrWhiteCount |-> config.mrWhite,
             currentPlayerIndex |-> 0,
             selectedCard |-> Null,
             players |-> NewRefs(h, config.totalPlayers),
             round |-> 1,
             gameWords |-> gameWords[1],
             selectedPlayerToEliminate |-> Null,
             eliminatedPlayer |-> Null,
             winner |-> NoWinner,
             mrWhiteGuess |-> <<>>,
             showingWord |-> FALSE],
            h \o players)

validTransitions ==
  { <<"setup", "card-selection">>,
    <<"card-selection", "description">>,
    <<"description", "voting">>,
    <<"voting", "description">>,
    <<"voting", "game-over">>,
    <<"description", "game-over">>,
    <<"game-over", "setup">>,
    <<"game-over", "card-selection">> }

canTransition(from, to) == <<from, to>> \in validTransitions

\* players[playerIndex] is undefined: the assignment throws a TypeError
TypeErrorMsg == "Cannot set properties of undefined"

GameService_assignPlayerToCard(gs, h, playerIndex, cardIndex, playerName) ==
  IF ~isCardAvailable(Deref(h, gs.players), cardIndex)
  THEN Thrown("Card is already taken", gs, h)
  ELSE IF playerIndex + 1 \notin DOMAIN gs.players
       THEN Thrown(TypeErrorMsg, gs, h)
  ELSE LET ref == gs.players[playerIndex + 1]
       IN Returned(
            [gs EXCEPT !.selectedCard = cardIndex],
            [h EXCEPT ![ref].cardIndex = cardIndex,
                      ![ref].name = IF playerName # <<>> THEN trim(playerName)
                                    ELSE @])

GameService_markPlayerRevealed(gs, h, playerIndex) ==
  IF playerIndex + 1 \notin DOMAIN gs.players
  THEN Thrown(TypeErrorMsg, gs, h)
  ELSE Returned(gs, [h EXCEPT ![gs.players[playerIndex + 1]].hasRevealed = TRUE])

GameService_eliminatePlayer(gs, h, playerId) ==
  LET playerIndex == FindIndex(Deref(h, gs.players), LAMBDA p : p.id = playerId)
  IN IF playerIndex = 0 - 1 THEN Thrown("Player not found", gs, h)
     ELSE LET ref == gs.players[playerIndex + 1]
          IN Returned([gs EXCEPT !.eliminatedPlayer = ref,
                                 !.selectedPlayerToEliminate = Null],
                      [h EXCEPT ![ref].isEliminated = TRUE])

\* advanceToNextPlayer leaving the staged card in place
GameService_advanceToNextPlayer_KeepsCard(gs, totalPlayers) ==
  IF gs.currentPlayerIndex < totalPlayers - 1
  THEN [gs EXCEPT !.currentPlayerIndex = gs.currentPlayerIndex + 1]
  ELSE [gs EXCEPT !.phase = "description",
                  !.currentPlayerIndex = 0,
                  !.selectedCard = Null]

GameService_advanceToNextPlayer(gs, totalPlayers) ==
  IF gs.currentPlayerIndex < totalPlayers - 1
  THEN [gs EXCEPT !.currentPlayerIndex = gs.currentPlayerIndex + 1,
                  !.selectedCard = Null]
  ELSE [gs EXCEPT !.phase = "description",
                  !.currentPlayerIndex = 0,
                  !.selectedCard = Null]

\* startNewRound; gameWords and roles as for initializeGame
GameService_startNewRound(gs, h, gameWords, roles) ==
  LET old == Deref(h, gs.players)
      totalPlayers == Len(gs.players)
      newPlayers == generatePlayers(totalPlayers, gameWords[1], roles)
      updatedPlayers == [i \in 1..totalPlayers |->
                           [newPlayers[i] EXCEPT !.id = old[i].id,
                                                 !.name = old[i].name,
                                                 !.isEliminated = FALSE,
                                                 !.hasRevealed = FALSE,
                                                 !.isReady = TRUE,
                                                 !.cardIndex = 0 - 1]]
  IN IF gameWords = <<>>
     THEN Thrown("No available word pairs for new round", gs, h)
     ELSE Returned(
            [gs EXCEPT !.phase = "card-selection",
                       !.round = gs.round + 1,
                       !.currentPlayerIndex = 0,
                       !.selectedCard = Null,
                       !.players = NewRefs(h, totalPlayers),
                       !.gameWords = gameWords[1],
                       !.selectedPlayerToEliminate = Null,
                       !.eliminatedPlayer = Null,
                       !.mrWhiteGuess = <<>>],
            h \o updatedPlayers)

GameService_checkAndUpdateWinConditions(gs, h) ==
  LET winner == checkWinConditions(Deref(h, gs.players))
  IN IF winner # NoWinner
     THEN [gs EXCEPT !.phase = "game-over", !.winner = winner]
     ELSE gs

\* processMrWhiteGuess comparing the trimmed strings without case-folding
GameService_processMrWhiteGuess_CaseSensitive(gs, guess) ==
  LET isCorrect == trim(guess) = trim(gs.gameWords.civilian)
  IN IF isCorrect
     THEN [gs EXCEPT !.phase = "game-over", !.winner = "mrwhite",
                     !.mrWhiteGuess = guess]
     ELSE [gs EXCEPT !.phase = "game-over", !.winner = "civilian",
                     !.mrWhiteGuess = guess]

GameService_processMrWhiteGuess(gs, guess) ==
  LET normalizedGuess == trim(toLowerCase(guess))
      normalizedCivilianWord == trim(toLowerCase(gs.gameWords.civilian))
      isCorrect == normalizedGuess = normalizedCivilianWord
  IN IF isCorrect
     THEN [gs EXCEPT !.phase = "game-over", !.winner = "mrwhite",
                     !.mrWhiteGuess = guess]
     ELSE [gs EXCEPT !.phase = "game-over", !.winner = "civilian",
                     !.mrWhiteGuess = guess]

validPhases == {"setup", "card-selection", "description", "voting", "game-over"}

\* validateGameState: the list of errors (empty when the state is valid)
GameService_validateGameState(gs) ==
  (IF gs.phase \notin validPhases THEN <<"Invalid phase">> ELSE <<>>)
  \o (IF Len(gs.players) = 0 THEN <<"No players in game">> ELSE <<>>)
  \o (IF gs.currentPlayerIndex < 0 \/ gs.currentPlayerIndex >= Len(gs.players)
      THEN <<"Invalid current player index">> ELSE <<>>)
  \o (IF gs.round < 1 THEN <<"Invalid round number">> ELSE <<>>)

GameService_canPlayerBeEliminated(gs, h, playerId) ==
  LET players == Deref(h, gs.players)
      found == {i \in DOMAIN players : players[i].id = playerId}
  IN IF found = {} THEN FALSE
     ELSE ~players[CHOOSE i \in found : \A j \in found : i <= j].isEliminated

\* ------------------------------------------------------------------------
\* GameActionService: every function returns a GameActionResult.  `heap` is
\* the heap after the call (in-place writes are visible whether or not the
\* result is committed); `state` is newState and is meaningful only when
\* success is TRUE.
\* ------------------------------------------------------------------------
NoModal == "none"

Ok(gs, h, open, close, delay) ==
  [success |-> TRUE, state |-> gs, heap |-> h, error |-> "", details |-> <<>>,
   openModal |-> open, closeModal |-> close, delay |-> delay]

Fail(gs, h, msg) ==
  [success |-> FALSE, state |-> gs, heap |-> h, error |-> msg, details |-> <<>>,
   openModal |-> NoModal, closeModal |-> NoModal, delay |-> 0]

\* selectCard asking for the name in every round
GameActionService_selectCard_AlwaysName(gs, h, cardIndex, playerName) ==
  IF ~isCardAvailable(Deref(h, gs.players), cardIndex)
  THEN Fail(gs, h, "Card is already taken")
  ELSE LET r == GameService_assignPlayerToCard(gs, h, gs.currentPlayerIndex,
                                               cardIndex, playerName)
       IN IF r.thrown # "" THEN Fail(gs, r.heap, r.thrown)
          ELSE Ok(r.state, r.heap, "showNameModal", NoModal, 0)

GameActionService_selectCard(gs, h, cardIndex, playerName) ==
  IF ~isCardAvailable(Deref(h, gs.players), cardIndex)
  THEN Fail(gs, h, "Card is already taken")
  ELSE LET r == GameService_assignPlayerToCard(gs, h, gs.currentPlayerIndex,
                                               cardIndex, playerName)
       IN IF r.thrown # "" THEN Fail(gs, r.heap, r.thrown)
          ELSE Ok(r.state, r.heap,
                  IF gs.round = 1 THEN "showNameModal" ELSE "showWordModal",
                  NoModal, 0)

\* submitPlayerName writing the name before it checks that a card is selected
GameActionService_submitPlayerName_WriteFirst(gs, h, playerName) ==
  IF trim(playerName) = <<>> THEN Fail(gs, h, "Player name cannot be empty")
  ELSE IF gs.currentPlayerIndex + 1 \notin DOMAIN gs.players
       THEN Fail(gs, h, TypeErrorMsg)
  ELSE LET ref == gs.players[gs.currentPlayerIndex + 1]
           h2 == [h EXCEPT ![ref].name = trim(playerName)]
       IN IF gs.selectedCard = Null THEN Fail(gs, h2, "No card selected")
          ELSE Ok(gs, [h2 EXCEPT ![ref].cardIndex = gs.selectedCard],
                  "showWordModal", "showNameModal", 0)

GameActionService_submitPlayerName(gs, h, playerName) ==
  IF trim(playerName) = <<>> THEN Fail(gs, h, "Player name cannot be empty")
  ELSE IF gs.selectedCard = Null THEN Fail(gs, h, "No card selected")
  ELSE IF gs.currentPlayerIndex + 1 \notin DOMAIN gs.players
       THEN Fail(gs, h, TypeErrorMsg)
  ELSE LET ref == gs.players[gs.currentPlayerIndex + 1]
       IN Ok(gs,
             [h EXCEPT ![ref].name = trim(playerName),
                       ![ref].cardIndex = gs.selectedCard],
             "showWordModal", "showNameModal", 0)

GameActionService_revealWordNext(gs, h) ==
  IF gs.selectedCard = Null THEN Fail(gs, h, "No card selected")
  ELSE LET r == GameService_markPlayerRevealed(gs, h, gs.currentPlayerIndex)
           h2 == IF gs.round > 1
                 THEN [r.heap EXCEPT
                         ![gs.players[gs.currentPlayerIndex + 1]].cardIndex =
                            gs.selectedCard]
                 ELSE r.heap
           effectiveTotalPlayers == Len(gs.players)
       IN IF r.thrown # "" THEN Fail(gs, r.heap, r.thrown)
          ELSE IF gs.currentPlayerIndex < effectiveTotalPlayers - 1
               THEN Ok(GameService_advanceToNextPlayer(r.state,
                                                       effectiveTotalPlayers),
                       h2,
                       IF gs.round > 1 THEN "showTurnModal" ELSE NoModal,
                       "showWordModal", 200)
          ELSE Ok([r.state EXCEPT !.phase = "description",
                                  !.currentPlayerIndex = 0,
                                  !.selectedCard = Null],
                  h2, NoModal, "showWordModal", 200)

GameActionService_selectPlayerForElimination(gs, h, playerId) ==
  IF ~GameService_canPlayerBeEliminated(gs, h, playerId)
  THEN Fail(gs, h, "Player cannot be eliminated")
  ELSE Ok([gs EXCEPT !.selectedPlayerToEliminate = playerId], h,
          NoModal, NoModal, 0)

\* an active Mr. White exists
ActiveMrWhite(players) ==
  \E i \in DOMAIN players :
     ~players[i].isEliminated /\ players[i].role = "mrwhite"

\* eliminatePlayer asking for the guess prompt when Mr. White himself is out
GameActionService_eliminatePlayer_GuessOnMrWhite(gs, h) ==
  IF gs.selectedPlayerToEliminate = Null \/ gs.selectedPlayerToEliminate = 0
  THEN Fail(gs, h, "No player selected for elimination")
  ELSE LET r == GameService_eliminatePlayer(gs, h, gs.selectedPlayerToEliminate)
           newState == GameService_checkAndUpdateWinConditions(r.state, r.heap)
           eliminatedRole == r.heap[newState.eliminatedPlayer].role
       IN IF r.thrown # "" THEN Fail(gs, r.heap, r.thrown)
          ELSE Ok(newState, r.heap,
                  IF eliminatedRole = "mrwhite" /\ newState.winner = NoWinner
                  THEN "showMrWhiteGuessModal" ELSE "showEliminationModal",
                  NoModal, 0)

GameActionService_eliminatePlayer(gs, h) ==
  IF gs.selectedPlayerToEliminate = Null \/ gs.selectedPlayerToEliminate = 0
  THEN Fail(gs, h, "No player selected for elimination")
  ELSE LET r == GameService_eliminatePlayer(gs, h, gs.selectedPlayerToEliminate)
           newState == GameService_checkAndUpdateWinConditions(r.state, r.heap)
           eliminatedRole == r.heap[newState.eliminatedPlayer].role
       IN IF r.thrown # "" THEN Fail(gs, r.heap, r.thrown)
          ELSE Ok(newState, r.heap,
                  IF eliminatedRole = "undercover"
                     /\ ActiveMrWhite(Deref(r.heap, newState.players))
                     /\ newState.winner = NoWinner
                  THEN "showMrWhiteGuessModal" ELSE "showEliminationModal",
                  NoModal, 0)

GameActionService_confirmElimination(gs, h) ==
  IF gs.winner # NoWinner
  THEN Ok([gs EXCEPT !.phase = "game-over"], h, NoModal,
          "showEliminationModal", 0)
  ELSE IF gs.eliminatedPlayer # Null
          /\ h[gs.eliminatedPlayer].role = "undercover"
          /\ ActiveMrWhite(Deref(h, gs.players))
       THEN Ok(gs, h, "showMrWhiteGuessModal", "showEliminationModal", 0)
  ELSE LET checked == GameService_checkAndUpdateWinConditions(gs, h)
       IN Ok(IF checked.winner = NoWinner
             THEN [checked EXCEPT !.phase = "description"] ELSE checked,
             h, NoModal, "showEliminationModal", 0)

GameActionService_processMrWhiteGuess(gs, h, guess) ==
  IF trim(guess) = <<>> THEN Fail(gs, h, "Guess cannot be empty")
  ELSE Ok(GameService_processMrWhiteGuess(gs, guess), h,
          "showGameOverModal", "showMrWhiteGuessModal", 0)

\* the startNewGame call without its config argument
NoConfig == [totalPlayers |-> Null, undercover |-> Null, mrWhite |-> Null]

GameActionService_startNewGame(config, h, gameWords, roles) ==
  IF config = NoConfig
  THEN Fail(GameService_resetGame, h, "Game configuration is required")
  ELSE LET r == GameService_initializeGame(config, h, gameWords, roles)
       IN IF r.thrown # "" THEN Fail(r.state, r.heap, r.thrown)
          ELSE Ok(r.state, r.heap, NoModal, NoModal, 0)

GameActionService_startNewRound(gs, h, gameWords, roles) ==
  LET r == GameService_startNewRound(gs, h, gameWords, roles)
  IN IF r.thrown # "" THEN Fail(gs, r.heap, r.thrown)
     ELSE Ok(r.state, r.heap, NoModal, NoModal, 0)

GameActionService_resetGame(h) ==
  Ok(GameService_resetGame, h, NoModal, NoModal, 0)

GameActionService_transitionToPhase(gs, h, targetPhase) ==
  IF ~canTransition(gs.phase, targetPhase)
  THEN Fail(gs, h, "Cannot transition")
  ELSE IF targetPhase = "setup" THEN GameActionService_resetGame(h)
  ELSE IF targetPhase \in {"description", "voting"}
       THEN Ok([gs EXCEPT !.phase = targetPhase,
                          !.selectedPlayerToEliminate = Null],
               h, NoModal, NoModal, 0)
  ELSE Ok([gs EXCEPT !.phase = targetPhase], h, NoModal, NoModal, 0)

\* refreshWords: civilians and undercover get a NEW object carrying the new
\* word, a Mr. White keeps the object he had
\* refreshWords handing the civilian word to the undercover players too
GameActionService_refreshWords_OneWord(gs, h, newWords) ==
  LET old == Deref(h, gs.players)
      copied == {i \in DOMAIN old : old[i].role \in {"civilian", "undercover"}}
      \* position of player i among the copied ones
      Rank(i) == Cardinality({j \in copied : j <= i})
      fresh == [k \in 1..Cardinality(copied) |->
                  LET i == CHOOSE i \in copied : Rank(i) = k
                  IN [old[i] EXCEPT !.word =
                        IF old[i].role = "civilian" THEN newWords[1].civilian
                        ELSE newWords[1].civilian]]
  IN IF newWords = <<>> THEN Fail(gs, h, "No available word pairs")
     ELSE Ok([gs EXCEPT !.gameWords = newWords[1],
                        !.players = [i \in DOMAIN old |->
                                       IF i \in copied THEN Len(h) + Rank(i)
                                       ELSE gs.players[i]]],
             h \o fresh, NoModal, NoModal, 0)

GameActionService_refreshWords(gs, h, newWords) ==
  LET old == Deref(h, gs.players)
      copied == {i \in DOMAIN old : old[i].role \in {"civilian", "undercover"}}
      \* position of player i among the copied ones
      Rank(i) == Cardinality({j \in copied : j <= i})
      fresh == [k \in 1..Cardinality(copied) |->
                  LET i == CHOOSE i \in copied : Rank(i) = k
                  IN [old[i] EXCEPT !.word =
                        IF old[i].role = "civilian" THEN newWords[1].civilian
                        ELSE newWords[1].undercover]]
  IN IF newWords = <<>> THEN Fail(gs, h, "No available word pairs")
     ELSE Ok([gs EXCEPT !.gameWords = newWords[1],
                        !.players = [i \in DOMAIN old |->
                                       IF i \in copied THEN Len(h) + Rank(i)
                                       ELSE gs.players[i]]],
             h \o fresh, NoModal, NoModal, 0)

\* validateAction: "" when valid, else [reason, errors]
GameActionService_validateAction(gs, actionType) ==
  LET errors == GameService_validateGameState(gs)
  IN IF errors # <<>>
     THEN [isValid |-> FALSE, reason |-> "Invalid game state", details |-> errors]
     ELSE IF actionType = "selectCard" /\ gs.phase # "card-selection"
          THEN [isValid |-> FALSE,
                reason |-> "Card selection not allowed in current phase",
                details |-> <<>>]
     ELSE IF actionType = "eliminatePlayer" /\ gs.phase # "voting"
          THEN [isValid |-> FALSE,
                reason |-> "Player elimination not allowed in current phase",
                details |-> <<>>]
     ELSE [isValid |-> TRUE, reason |-> "", details |-> <<>>]

\* ------------------------------------------------------------------------
\* State
\* ------------------------------------------------------------------------
VARIABLES
  state,          \* GameStateManager.state (players are heap references)
  heap,           \* the Player objects, by reference
  history,        \* GameStateManager.history
  notified,       \* arguments of the last notifySubscribers call, if any
  lastEvent,      \* type of the last event emitted, "none" before the first
  lastOp,         \* the last operation called on the manager and its argument
  lastResult,     \* what that operation returned
  unplayed,       \* WordService: the word pairs not yet marked as played
  startPlayerId,  \* GameLogic.startPlayerId (static)
  isForward,      \* GameLogic.isForward (static)
  roster,         \* the players array handed to the GameLogic functions
  lastCall,       \* the last GameLogic function called on roster, its result
  calls,          \* number of calls made on the manager so far
  deepHist,       \* for each history entry, its deep value when it was pushed
  committed,      \* the deep value of state when it became the current state
  pre,            \* the deep value of state just before the last operation
  inFlight,       \* the executeAction calls on the JavaScript call stack
  eventLog,       \* commits and events in the order subscribers were told
  awaiting,       \* eliminatePlayer(playerId) calls suspended at their await
  resolved        \* eliminatePlayer(playerId) calls that have resolved

asyncVars == <<awaiting, resolved>>
dispatchVars == <<inFlight, eventLog, asyncVars>>
managerVars == <<state, heap, history, notified, lastEvent, lastOp, lastResult,
                 unplayed, calls, deepHist, committed, pre, dispatchVars>>
logicVars == <<roster, lastCall>>
cacheVars == <<startPlayerId, isForward>>
vars == <<managerVars, logicVars, cacheVars>>

maxHistorySize == 10

\* word pairs in the store
Words == {defaultWords[i] : i \in 1..MaxWords}

\* outcomes of WordService.getRandomUnplayedWord: <<>> for null
WordChoices == IF unplayed = {} THEN {<<>>} ELSE {<<w>> : w \in unplayed}

\* configurations offered to startNewGame
Configs ==
  {[totalPlayers |-> t, undercover |-> u, mrWhite |-> m] :
     t \in 3..MaxPlayers, u \in 0..1, m \in 0..1}

ValidConfigs ==
  {c \in Configs :
     validateGameConfig(c.totalPlayers, c.undercover, c.mrWhite) = "valid"}

\* shuffle outcomes generatePlayers can draw for a configuration
RoleChoices(totalPlayers, undercover, mrWhite) ==
  IF undercover + mrWhite > totalPlayers THEN {<<>>}
  ELSE ShuffleOutcomes(RoleArray(totalPlayers, undercover, mrWhite))

\* names typed into the name prompt, guesses typed by Mr. White
NameInputs == {<<" ">>, <<" ", "B", "o">>}
GuessInputs == {<<" ">>, <<" ", "a", "P", "E", "L">>, <<"J", "e", "r", "u", "k">>}
PhaseInputs == validPhases \cup {"mr-white-guess"}

\* ------------------------------------------------------------------------
\* GameStateManager
\* ------------------------------------------------------------------------
\* addToHistory that never drops an entry
addToHistory_Unbounded(hist, entry) ==
  Append(hist, entry)

addToHistory(hist, entry) ==
  LET pushed == Append(hist, entry)
  IN IF Len(pushed) > maxHistorySize THEN Tail(pushed) ELSE pushed

canUndo == Len(history) > 1

Outcome(r) ==
  [success |-> r.success, error |-> r.error, details |-> r.details,
   openModal |-> r.openModal, closeModal |-> r.closeModal, delay |-> r.delay]

\* setState(newState) once the action wrote `h` to the heap
setState(newState, h) ==
  /\ state' = newState
  /\ heap' = h
  /\ history' = addToHistory(history, newState)
  /\ notified' = << [newState |-> newState, previousState |-> state,
                     previousAsCommitted |-> committed] >>
  /\ deepHist' = addToHistory(deepHist, DeepState(newState, h))
  /\ committed' = DeepState(newState, h)

\* executeAction(actionType, arg), where r is the result the action service
\* returns for the current state
\* the body of executeAction: validation, the action, setState and the event
runAction(actionType, arg, r, limit) ==
  LET validation == GameActionService_validateAction(state, actionType)
  IN /\ calls < limit
     /\ calls' = calls + 1
     /\ lastOp' = [type |-> actionType, arg |-> arg]
     /\ pre' = DeepState(state, heap)
     /\ UNCHANGED <<unplayed, logicVars, cacheVars, inFlight, eventLog>>
     /\ IF ~validation.isValid
        THEN /\ lastResult' = [Outcome(Fail(state, heap, validation.reason))
                                 EXCEPT !.details = validation.details]
             /\ lastEvent' = "action_failed"
             /\ UNCHANGED <<state, heap, history, notified, deepHist,
                            committed>>
        ELSE IF r.success
        THEN /\ setState(r.state, r.heap)
             /\ lastResult' = Outcome(r)
             /\ lastEvent' = "action_executed"
        ELSE /\ heap' = r.heap
             /\ lastResult' = Outcome(r)
             /\ lastEvent' = "action_failed"
             /\ UNCHANGED <<state, history, notified, deepHist, committed>>

\* executeAction called on its own, with no convenience call suspended
executeAction(actionType, arg, r, limit) ==
  /\ runAction(actionType, arg, r, limit)
  /\ UNCHANGED asyncVars

\* cards of the pick grid
CardInputs == 0..(IF Len(state.players) > 0 THEN Len(state.players) - 1 ELSE 0)
\* ids offered to the vote (one more than the roster holds)
IdInputs == 1..(Len(state.players) + 1)

SelectCard(limit) ==
  \E cardIndex \in CardInputs :
     executeAction("selectCard", cardIndex,
                   GameActionService_selectCard(state, heap, cardIndex, <<>>),
                   limit)

SubmitPlayerName(limit) ==
  \E playerName \in NameInputs :
     executeAction("submitPlayerName", playerName,
                   GameActionService_submitPlayerName(state, heap, playerName),
                   limit)

RevealWordNext(limit) ==
  executeAction("revealWordNext", Null,
                GameActionService_revealWordNext(state, heap), limit)

SelectPlayerForElimination(limit) ==
  \E playerId \in IdInputs :
     executeAction("selectPlayerForElimination", playerId,
                   GameActionService_selectPlayerForElimination(state, heap,
                                                                playerId),
                   limit)

EliminatePlayer(limit) ==
  executeAction("eliminatePlayer", Null,
                GameActionService_eliminatePlayer(state, heap), limit)

ConfirmElimination(limit) ==
  executeAction("confirmElimination", Null,
                GameActionService_confirmElimination(state, heap), limit)

ProcessMrWhiteGuess(limit) ==
  \E guess \in GuessInputs :
     executeAction("processMrWhiteGuess", guess,
                   GameActionService_processMrWhiteGuess(state, heap, guess),
                   limit)

StartNewGame(limit) ==
  \E config \in Configs \cup {NoConfig} :
     \E gameWords \in WordChoices :
        \E roles \in (IF config \in ValidConfigs
                      THEN RoleChoices(config.totalPlayers, config.undercover,
                                       config.mrWhite)
                      ELSE {<<>>}) :
           executeAction("startNewGame", config,
                         GameActionService_startNewGame(config, heap, gameWords,
                                                        roles),
                         limit)

StartNewRound(limit) ==
  LET players == Deref(heap, state.players)
  IN \E gameWords \in WordChoices :
        \E roles \in RoleChoices(Len(players),
                                 Len(Filter(players,
                                            LAMBDA p : p.role = "undercover")),
                                 Len(Filter(players,
                                            LAMBDA p : p.role = "mrwhite"))) :
           executeAction("startNewRound", Null,
                         GameActionService_startNewRound(state, heap, gameWords,
                                                         roles),
                         limit)

ResetGame(limit) ==
  executeAction("resetGame", Null, GameActionService_resetGame(heap), limit)

TransitionToPhase(limit) ==
  \E targetPhase \in PhaseInputs :
     executeAction("transitionToPhase", targetPhase,
                   GameActionService_transitionToPhase(state, heap, targetPhase),
                   limit)

RefreshWords(limit) ==
  \E newWords \in WordChoices :
     executeAction("refreshWords", Null,
                   GameActionService_refreshWords(state, heap, newWords), limit)

\* an action type the dispatcher does not know
UnknownAction(limit) ==
  executeAction("unknown", Null, Fail(state, heap, "Unknown action type"),
                limit)

Undo(limit) ==
  /\ calls < limit
  /\ calls' = calls + 1
  /\ lastOp' = [type |-> "undo", arg |-> Null]
  /\ pre' = DeepState(state, heap)
  /\ UNCHANGED <<heap, unplayed, logicVars, cacheVars, dispatchVars>>
  /\ IF ~canUndo
     THEN /\ lastResult' = Outcome(Fail(state, heap, "undo: false"))
          /\ UNCHANGED <<state, history, notified, deepHist, committed,
                         lastEvent>>
     ELSE LET popped == SubSeq(history, 1, Len(history) - 1)
              previousState == popped[Len(popped)]
          IN /\ history' = popped
             /\ deepHist' = SubSeq(deepHist, 1, Len(deepHist) - 1)
             /\ state' = previousState
             /\ committed' = deepHist[Len(deepHist) - 1]
             /\ notified' = << [newState |-> previousState,
                                previousState |-> state,
                                previousAsCommitted |-> committed] >>
             /\ lastEvent' = "state_undone"
             /\ lastResult' = Outcome(Ok(state, heap, NoModal, NoModal, 0))

\* exportState(): the JSON text of { state, timestamp }.  A text is modelled
\* by whether JSON.parse accepts it and by the value it then denotes; the
\* text of a state carries the value of every Player object, never a reference
exportState == [parses |-> TRUE, state |-> DeepState(state, heap)]

\* a text JSON.parse throws on
MalformedText == [parses |-> FALSE, state |-> DeepState(GameService_resetGame, <<>>)]

\* the texts of the exported state edited by hand: every player on card 0, a
\* winner recorded in the current phase, every player undercover
SharedCardText ==
  [exportState EXCEPT !.state.players =
     [i \in DOMAIN @ |-> [@[i] EXCEPT !.cardIndex = 0]]]
EarlyWinnerText == [exportState EXCEPT !.state.winner = "civilian"]
AllUndercoverText ==
  [exportState EXCEPT !.state.players =
     [i \in DOMAIN @ |-> [@[i] EXCEPT !.role = "undercover"]]]

ImportInputs ==
  {exportState, MalformedText, SharedCardText, EarlyWinnerText,
   AllUndercoverText}

\* JSON.parse of the text of a state: new Player objects on top of heap h, one
\* per player and a separate one for eliminatedPlayer
JSONParse(text, h) ==
  LET n == Len(text.state.players)
  IN [state |-> [text.state EXCEPT
                   !.players = NewRefs(h, n),
                   !.eliminatedPlayer = IF text.state.eliminatedPlayer = <<>>
                                        THEN Null ELSE Len(h) + n + 1],
      heap |-> h \o text.state.players \o text.state.eliminatedPlayer]

ImportState(limit) ==
  \E serializedState \in ImportInputs :
     LET parsed == JSONParse(serializedState, heap)
     IN /\ calls < limit
        /\ calls' = calls + 1
        /\ lastOp' = [type |-> "importState", arg |-> serializedState]
        /\ pre' = DeepState(state, heap)
        /\ UNCHANGED <<unplayed, logicVars, cacheVars, dispatchVars>>
        /\ IF ~serializedState.parses
           THEN /\ lastResult' = Outcome(Fail(state, heap, "importState: false"))
                /\ UNCHANGED <<state, heap, history, notified, deepHist,
                               committed, lastEvent>>
           ELSE IF GameService_validateGameState(parsed.state) = <<>>
           THEN /\ setState(parsed.state, parsed.heap)
                /\ lastEvent' = "state_imported"
                /\ lastResult' = Outcome(Ok(parsed.state, parsed.heap, NoModal,
                                            NoModal, 0))
           ELSE /\ lastResult' = Outcome(Fail(state, heap, "importState: false"))
                /\ UNCHANGED <<state, heap, history, notified, deepHist,
                               committed, lastEvent>>

\* WordService.markWordAsPlayed(gameWords.civilian, gameWords.undercover),
\* called by the UI on the pair in play
MarkWordAsPlayed ==
  /\ state.gameWords \in unplayed
  /\ unplayed' = unplayed \ {state.gameWords}
  /\ UNCHANGED <<state, heap, history, notified, lastEvent, lastOp, lastResult,
                 calls, deepHist, committed, pre, logicVars, cacheVars,
                 dispatchVars>>

\* ------------------------------------------------------------------------
\* Construction: new GameStateManager(initialState?)
\* ------------------------------------------------------------------------
Letters == <<"a", "b", "c", "d", "e", "f">>

\* a session as the constructor receives it: a state and its Player objects
Session(gs, h) == [state |-> gs, heap |-> h]

\* no initialState: the manager starts from GameService.resetGame()
FreshSession == Session(GameService_resetGame, <<>>)

\* initialState = GameService.initializeGame(config), on the first pair of
\* the store
NewGameSessions ==
  UNION {
    {LET r == GameService_initializeGame(c, <<>>, <<defaultWords[1]>>, roles)
     IN Session(r.state, r.heap) :
       roles \in RoleChoices(c.totalPlayers, c.undercover, c.mrWhite)} :
    c \in ValidConfigs}

\* a new game whose first player has picked card 0 and not yet entered a name
PickedSessions ==
  {LET r == GameActionService_selectCard(s.state, s.heap, 0, <<>>)
   IN Session(r.state, r.heap) : s \in NewGameSessions}

\* a new game played through card selection with the action service: each
\* player in turn takes the next card, enters a name and reveals the word
RECURSIVE Dealt(_)
Dealt(s) ==
  IF s.state.phase # "card-selection" THEN s
  ELSE LET i == s.state.currentPlayerIndex
           a == GameActionService_selectCard(s.state, s.heap, i, <<>>)
           b == GameActionService_submitPlayerName(a.state, a.heap,
                                                   <<"B", Letters[i + 1]>>)
           c == GameActionService_revealWordNext(b.state, b.heap)
       IN Dealt(Session(c.state, c.heap))

DealtSessions == {Dealt(s) : s \in NewGameSessions}

\* ... and moved on to the vote
VotingSessions ==
  {LET r == GameActionService_transitionToPhase(s.state, s.heap, "voting")
   IN Session(r.state, r.heap) : s \in DealtSessions}

\* ... and player 1 voted out (selectPlayerForElimination, eliminatePlayer)
VotedSessions ==
  {LET a == GameActionService_selectPlayerForElimination(s.state, s.heap, 1)
       b == GameActionService_eliminatePlayer(a.state, a.heap)
   IN Session(b.state, b.heap) : s \in VotingSessions}

\* a second round at the vote: a game decided by the vote on player 1,
\* continued with the same players (GameService.startNewRound), dealt again
\* and moved on to the vote
SecondRoundSessions ==
  UNION {
    {LET n == GameService_startNewRound(s.state, s.heap, <<defaultWords[1]>>,
                                        roles)
         d == Dealt(Session(n.state, n.heap))
         v == GameActionService_transitionToPhase(d.state, d.heap, "voting")
     IN Session(v.state, v.heap) :
       roles \in RoleChoices(Len(s.state.players), s.state.undercoverCount,
                             s.state.mrWhiteCount)} :
    s \in {t \in VotedSessions : t.state.phase = "game-over"}}

LogicIdle ==
  /\ roster = <<>>
  /\ lastCall = [op |-> "none", result |-> <<>>]

CacheInit ==
  /\ startPlayerId = Null
  /\ isForward = TRUE

ManagerInit(sessions) ==
  \E s \in sessions :
     /\ state = s.state
     /\ heap = s.heap
     /\ history = <<s.state>>
     /\ notified = <<>>
     /\ lastEvent = "none"
     /\ lastOp = [type |-> "constructor", arg |-> Null]
     /\ lastResult = Outcome(Ok(s.state, s.heap, NoModal, NoModal, 0))
     /\ unplayed = Words
     /\ calls = 0
     /\ deepHist = <<DeepState(s.state, s.heap)>>
     /\ committed = DeepState(s.state, s.heap)
     /\ pre = DeepState(s.state, s.heap)
     /\ inFlight = <<>>
     /\ eventLog = <<>>
     /\ awaiting = <<>>
     /\ resolved = <<>>

\* ------------------------------------------------------------------------
\* The manager under every action
\* ------------------------------------------------------------------------
Init ==
  /\ ManagerInit({FreshSession} \cup NewGameSessions \cup DealtSessions
                   \cup VotingSessions)
  /\ LogicIdle
  /\ CacheInit

Next ==
  \/ SelectCard(MaxCalls)
  \/ SubmitPlayerName(MaxCalls)
  \/ RevealWordNext(MaxCalls)
  \/ SelectPlayerForElimination(MaxCalls)
  \/ EliminatePlayer(MaxCalls)
  \/ ConfirmElimination(MaxCalls)
  \/ ProcessMrWhiteGuess(MaxCalls)
  \/ StartNewGame(MaxCalls)
  \/ StartNewRound(MaxCalls)
  \/ ResetGame(MaxCalls)
  \/ TransitionToPhase(MaxCalls)
  \/ RefreshWords(MaxCalls)
  \/ UnknownAction(MaxCalls)
  \/ Undo(MaxCalls)
  \/ ImportState(MaxCalls)
  \/ MarkWordAsPlayed

Spec == Init /\ [][Next]_vars

\* ------------------------------------------------------------------------
\* One dispatch on a manager constructed at any point of a game
\* ------------------------------------------------------------------------
MaxDispatch == 1

DispatchInit ==
  /\ ManagerInit({FreshSession} \cup NewGameSessions \cup PickedSessions
                   \cup VotingSessions \cup VotedSessions)
  /\ LogicIdle
  /\ CacheInit

DispatchNext ==
  \/ SelectCard(MaxDispatch)
  \/ SubmitPlayerName(MaxDispatch)
  \/ RevealWordNext(MaxDispatch)
  \/ SelectPlayerForElimination(MaxDispatch)
  \/ EliminatePlayer(MaxDispatch)
  \/ ConfirmElimination(MaxDispatch)
  \/ ProcessMrWhiteGuess(MaxDispatch)
  \/ StartNewGame(MaxDispatch)
  \/ StartNewRound(MaxDispatch)
  \/ ResetGame(MaxDispatch)
  \/ TransitionToPhase(MaxDispatch)
  \/ RefreshWords(MaxDispatch)
  \/ UnknownAction(MaxDispatch)
  \/ Undo(MaxDispatch)
  \/ MarkWordAsPlayed

SpecDispatch == DispatchInit /\ [][DispatchNext]_vars

\* ------------------------------------------------------------------------
\* GameLogic called directly on a roster (the turn-ordering cache is static:
\* it outlives the roster it was drawn for)
\* ------------------------------------------------------------------------
\* rosters as generatePlayers builds them, for every split of the roles
FreshRosters ==
  UNION {
    {generatePlayers(c[1], defaultWords[1], roles) :
       roles \in RoleChoices(c[1], c[2], c[3])} :
    c \in {d \in (0..MaxRoster) \X (0..MaxRoster) \X (0..MaxRoster) :
             d[2] + d[3] <= d[1]}}

ManagerIdle ==
  /\ ManagerInit({FreshSession})

LogicInit ==
  /\ ManagerIdle
  /\ CacheInit
  /\ roster \in FreshRosters
  /\ lastCall = [op |-> "none", result |-> <<>>]

\* the draw made anew on every call, whatever is cached
DrawStart_AlwaysRedraw(players, startId, forward) ==
  IF players = <<>>
  THEN startId = startPlayerId /\ forward = isForward
  ELSE startId \in StartCandidates(players)

\* the random draw of getDescriptionPhaseOrder: made only for a non-empty
\* roster while no start player is cached
DrawStart(players, startId, forward) ==
  IF players = <<>> \/ startPlayerId # Null
  THEN startId = startPlayerId /\ forward = isForward
  ELSE startId \in StartCandidates(players)

getDescriptionPhaseOrder ==
  \E startId \in {Null} \cup (1..(MaxRoster + 1)), forward \in BOOLEAN :
     /\ DrawStart(roster, startId, forward)
     /\ startPlayerId' = startId
     /\ isForward' = forward
     /\ lastCall' = [op |-> "getDescriptionPhaseOrder",
                     result |-> DescriptionOrderFrom(roster, startId, forward)]
     /\ UNCHANGED <<roster, managerVars>>

getVotingPhaseOrder ==
  \E startId \in {Null} \cup (1..(MaxRoster + 1)), forward \in BOOLEAN :
     /\ DrawStart(roster, startId, forward)
     /\ startPlayerId' = startId
     /\ isForward' = forward
     /\ lastCall' = [op |-> "getVotingPhaseOrder",
                     result |-> VotingOrderFrom(
                                  DescriptionOrderFrom(roster, startId, forward))]
     /\ UNCHANGED <<roster, managerVars>>

CheckWinConditions ==
  /\ lastCall' = [op |-> "checkWinConditions",
                  result |-> checkWinConditions(roster)]
  /\ UNCHANGED <<roster, cacheVars, managerVars>>

resetRandomStart ==
  /\ startPlayerId' = Null
  /\ isForward' = TRUE
  /\ lastCall' = [op |-> "none", result |-> <<>>]
  /\ UNCHANGED <<roster, managerVars>>

\* a player of the roster is voted out (GameService.eliminatePlayer)
RosterEliminate ==
  \E i \in DOMAIN roster :
     /\ ~roster[i].isEliminated
     /\ roster' = [roster EXCEPT ![i].isEliminated = TRUE]
     /\ lastCall' = [op |-> "none", result |-> <<>>]
     /\ UNCHANGED <<cacheVars, managerVars>>

\* the next game or round brings a new roster; GameService.initializeGame and
\* GameService.startNewRound leave the GameLogic cache as it is
RosterReplaced ==
  /\ roster' \in FreshRosters
  /\ lastCall' = [op |-> "none", result |-> <<>>]
  /\ UNCHANGED <<cacheVars, managerVars>>

LogicNext ==
  \/ getDescriptionPhaseOrder
  \/ getVotingPhaseOrder
  \/ CheckWinConditions
  \/ resetRandomStart
  \/ RosterEliminate
  \/ RosterReplaced

SpecLogic == LogicInit /\ [][LogicNext]_vars

\* ------------------------------------------------------------------------
\* Game setup: validateGameConfig, generatePlayers and initializeGame called
\* on every configuration
\* ------------------------------------------------------------------------
MaxConfigPlayers == 5
MaxSpecial == 2

ConfigInputs ==
  {[totalPlayers |-> t, undercover |-> u, mrWhite |-> m] :
     t \in 0..MaxConfigPlayers, u \in 0..MaxSpecial, m \in 0..MaxSpecial}

ConfigInit ==
  /\ ManagerIdle
  /\ LogicIdle
  /\ CacheInit

ValidateGameConfig ==
  \E c \in ConfigInputs :
     /\ lastCall' = [op |-> "validateGameConfig", config |-> c,
                     result |-> validateGameConfig(c.totalPlayers, c.undercover,
                                                   c.mrWhite)]
     /\ UNCHANGED <<roster, cacheVars, managerVars>>

GeneratePlayers ==
  \E c \in ConfigInputs, w \in Range(defaultWords) :
     \E roles \in ShuffleOutcomes(RoleArray(c.totalPlayers, c.undercover,
                                            c.mrWhite)) :
        /\ lastCall' = [op |-> "generatePlayers", config |-> c, words |-> w,
                        result |-> generatePlayers(c.totalPlayers, w, roles)]
        /\ UNCHANGED <<roster, cacheVars, managerVars>>

InitializeGame ==
  \E c \in ConfigInputs, gameWords \in {<<>>, <<defaultWords[1]>>} :
     \E roles \in ShuffleOutcomes(RoleArray(c.totalPlayers, c.undercover,
                                            c.mrWhite)) :
        /\ lastCall' = [op |-> "initializeGame", config |-> c,
                        result |-> GameService_initializeGame(c, <<>>, gameWords,
                                                              roles)]
        /\ UNCHANGED <<roster, cacheVars, managerVars>>

ConfigNext ==
  \/ ValidateGameConfig
  \/ GeneratePlayers
  \/ InitializeGame

SpecConfig == ConfigInit /\ [][ConfigNext]_vars

\* ------------------------------------------------------------------------
\* executeAction step by step.  It is declared async but awaits nothing, so a
\* call runs to its return statement on the caller's stack; the subscribers
\* it calls on the way (notifySubscribers inside setState, then emitEvent)
\* are host code that may call executeAction again
\* ------------------------------------------------------------------------
MaxNesting == 2
MaxReentryCalls == 3

\* executeAction(actionType, arg) from its first line to its first call of a
\* subscriber: validation, the action, and on success setState up to
\* notifySubscribers; on failure up to emitEvent(action_failed).  The caller
\* is the host at rest (inFlight empty) or a subscriber of the innermost
\* call in flight
enterDispatch(actionType, arg, r) ==
  LET validation == GameActionService_validateAction(state, actionType)
      id == calls + 1
      frame(pc, result) ==
        [id |-> id, actionType |-> actionType, pc |-> pc, result |-> result]
  IN /\ calls < MaxReentryCalls
     /\ Len(inFlight) < MaxNesting
     /\ calls' = id
     /\ lastOp' = [type |-> actionType, arg |-> arg]
     /\ pre' = DeepState(state, heap)
     /\ UNCHANGED <<unplayed, logicVars, cacheVars, lastResult, asyncVars>>
     /\ IF ~validation.isValid
        THEN /\ lastEvent' = "action_failed"
             /\ eventLog' = Append(eventLog,
                                   [kind |-> "action_failed", id |-> id])
             /\ inFlight' =
                  Append(inFlight,
                         frame("emitEvent",
                               [Outcome(Fail(state, heap, validation.reason))
                                  EXCEPT !.details = validation.details]))
             /\ UNCHANGED <<state, heap, history, notified, deepHist,
                            committed>>
        ELSE IF r.success
        THEN /\ setState(r.state, r.heap)
             /\ eventLog' = Append(eventLog, [kind |-> "commit", id |-> id])
             /\ inFlight' = Append(inFlight,
                                   frame("notifySubscribers", Outcome(r)))
             /\ UNCHANGED lastEvent
        ELSE /\ heap' = r.heap
             /\ lastEvent' = "action_failed"
             /\ eventLog' = Append(eventLog,
                                   [kind |-> "action_failed", id |-> id])
             /\ inFlight' = Append(inFlight, frame("emitEvent", Outcome(r)))
             /\ UNCHANGED <<state, history, notified, deepHist, committed>>

\* the actions the host and its subscribers issue
CallSelectCard ==
  \E cardIndex \in CardInputs :
     enterDispatch("selectCard", cardIndex,
                   GameActionService_selectCard(state, heap, cardIndex, <<>>))

CallSubmitPlayerName ==
  \E playerName \in NameInputs :
     enterDispatch("submitPlayerName", playerName,
                   GameActionService_submitPlayerName(state, heap, playerName))

CallRevealWordNext ==
  enterDispatch("revealWordNext", Null,
                GameActionService_revealWordNext(state, heap))

CallResetGame ==
  enterDispatch("resetGame", Null, GameActionService_resetGame(heap))

\* the state subscribers of the innermost call have returned: setState
\* returns and executeAction calls emitEvent(action_executed)
SubscribersNotified ==
  /\ inFlight # <<>>
  /\ inFlight[Len(inFlight)].pc = "notifySubscribers"
  /\ inFlight' = [inFlight EXCEPT ![Len(inFlight)].pc = "emitEvent"]
  /\ lastEvent' = "action_executed"
  /\ eventLog' = Append(eventLog, [kind |-> "action_executed",
                                   id |-> inFlight[Len(inFlight)].id])
  /\ UNCHANGED <<state, heap, history, notified, lastOp, lastResult, unplayed,
                 calls, deepHist, committed, pre, logicVars, cacheVars,
                 asyncVars>>

\* the event subscribers of the innermost call have returned: executeAction
\* returns its result
DispatchReturns ==
  /\ inFlight # <<>>
  /\ inFlight[Len(inFlight)].pc = "emitEvent"
  /\ inFlight' = SubSeq(inFlight, 1, Len(inFlight) - 1)
  /\ lastResult' = inFlight[Len(inFlight)].result
  /\ UNCHANGED <<state, heap, history, notified, lastEvent, lastOp, unplayed,
                 calls, deepHist, committed, pre, eventLog, logicVars,
                 cacheVars, asyncVars>>

ReentryInit ==
  /\ ManagerInit({FreshSession} \cup NewGameSessions \cup PickedSessions)
  /\ LogicIdle
  /\ CacheInit

ReentryNext ==
  \/ CallSelectCard
  \/ CallSubmitPlayerName
  \/ CallRevealWordNext
  \/ CallResetGame
  \/ SubscribersNotified
  \/ DispatchReturns

SpecReentry == ReentryInit /\ [][ReentryNext]_vars

\* ------------------------------------------------------------------------
\* The vote on its own: a game in the voting phase, under the actions of the
\* voting screen, a change of words and undo
\* ------------------------------------------------------------------------
MaxVoteCalls == 5

VoteInit ==
  /\ ManagerInit(VotingSessions \cup SecondRoundSessions)
  /\ LogicIdle
  /\ CacheInit

VoteNext ==
  \/ SelectPlayerForElimination(MaxVoteCalls)
  \/ EliminatePlayer(MaxVoteCalls)
  \/ ConfirmElimination(MaxVoteCalls)
  \/ RefreshWords(MaxVoteCalls)
  \/ Undo(MaxVoteCalls)

SpecVote == VoteInit /\ [][VoteNext]_vars

\* ------------------------------------------------------------------------
\* The turn order of the session: GameStateManager.getDescriptionPhaseOrder
\* and getVotingPhaseOrder hand state.players to GameLogic, whose static
\* cache outlives every state of the manager
\* ------------------------------------------------------------------------
MaxOrderCalls == 3

ManagerGetDescriptionPhaseOrder ==
  LET players == Deref(heap, state.players)
  IN \E startId \in {Null} \cup (1..(MaxPlayers + 1)), forward \in BOOLEAN :
        /\ DrawStart(players, startId, forward)
        /\ startPlayerId' = startId
        /\ isForward' = forward
        /\ lastCall' =
             LET order == DescriptionOrderFrom(players, startId, forward)
             IN [op |-> "getDescriptionPhaseOrder", result |-> order,
                 descriptionOrder |-> order]
        /\ UNCHANGED <<roster, managerVars>>

ManagerGetVotingPhaseOrder ==
  LET players == Deref(heap, state.players)
  IN \E startId \in {Null} \cup (1..(MaxPlayers + 1)), forward \in BOOLEAN :
        /\ DrawStart(players, startId, forward)
        /\ startPlayerId' = startId
        /\ isForward' = forward
        /\ lastCall' =
             LET order == DescriptionOrderFrom(players, startId, forward)
             IN [op |-> "getVotingPhaseOrder",
                 result |-> VotingOrderFrom(order),
                 descriptionOrder |-> order]
        /\ UNCHANGED <<roster, managerVars>>

OrderInit ==
  /\ ManagerInit(DealtSessions \cup VotingSessions)
  /\ LogicIdle
  /\ CacheInit

\* one round: the two orders, the vote
OrderNext ==
  \/ ManagerGetDescriptionPhaseOrder
  \/ ManagerGetVotingPhaseOrder
  \/ SelectPlayerForElimination(MaxOrderCalls)
  \/ EliminatePlayer(MaxOrderCalls)
  \/ ConfirmElimination(MaxOrderCalls)

SpecOrder == OrderInit /\ [][OrderNext]_vars

\* from one game or round to the next
MaxRoundCalls == 2

RoundNext ==
  \/ ManagerGetDescriptionPhaseOrder
  \/ StartNewGame(MaxRoundCalls)
  \/ StartNewRound(MaxRoundCalls)

SpecRound == OrderInit /\ [][RoundNext]_vars

\* ------------------------------------------------------------------------
\* The pick grid: every outcome of the three card-selection actions, on new
\* games and on games with cards already held
\* ------------------------------------------------------------------------
MaxPickCalls == 3

PickInit ==
  /\ ManagerInit(NewGameSessions \cup PickedSessions)
  /\ LogicIdle
  /\ CacheInit

PickNext ==
  \/ SelectCard(MaxPickCalls)
  \/ SubmitPlayerName(MaxPickCalls)
  \/ RevealWordNext(MaxPickCalls)

SpecPick == PickInit /\ [][PickNext]_vars

\* ------------------------------------------------------------------------
\* The history on its own: more commits than the history holds, and undo
\* ------------------------------------------------------------------------
MaxHistoryCalls == 11

\* the players staged in turn
StageInputs == {1, 2}

StagePlayer(limit) ==
  \E playerId \in StageInputs :
     executeAction("selectPlayerForElimination", playerId,
                   GameActionService_selectPlayerForElimination(state, heap,
                                                                playerId),
                   limit)

HistoryInit ==
  /\ ManagerInit({FreshSession} \cup VotingSessions)
  /\ LogicIdle
  /\ CacheInit

HistoryNext ==
  \/ StagePlayer(MaxHistoryCalls)
  \/ Undo(MaxHistoryCalls)

SpecHistory == HistoryInit /\ [][HistoryNext]_vars

\* ------------------------------------------------------------------------
\* The rotation of getDescriptionPhaseOrder on larger rosters: up to
\* MaxLineUp players, at most one of them Mr. White
\* ------------------------------------------------------------------------
MaxLineUp == 5

LineUps ==
  UNION {
    {generatePlayers(n, defaultWords[1], roles) :
       roles \in ShuffleOutcomes(RoleArray(n, 0, m))} :
    n \in 1..MaxLineUp, m \in 0..1}

LineUpInit ==
  /\ ManagerIdle
  /\ CacheInit
  /\ roster \in LineUps
  /\ lastCall = [op |-> "none", result |-> <<>>]

DescribeLineUp ==
  \E startId \in {Null} \cup (1..MaxLineUp), forward \in BOOLEAN :
     /\ DrawStart(roster, startId, forward)
     /\ startPlayerId' = startId
     /\ isForward' = forward
     /\ lastCall' = [op |-> "getDescriptionPhaseOrder",
                     result |-> DescriptionOrderFrom(roster, startId, forward)]
     /\ UNCHANGED <<roster, managerVars>>

LineUpNext ==
  \/ DescribeLineUp
  \/ resetRandomStart
  \/ RosterEliminate

SpecLineUp == LineUpInit /\ [][LineUpNext]_vars

\* ------------------------------------------------------------------------
\* GameService.initializeGame on the configurations of the documentation
\* (README: totalPlayers 6, undercover 2, mrWhite 1) and their neighbours
\* ------------------------------------------------------------------------
MaxExamplePlayers == 6

ExampleConfigs ==
  {[totalPlayers |-> t, undercover |-> u, mrWhite |-> m] :
     t \in 5..MaxExamplePlayers, u \in 0..2, m \in 0..1}

ExampleInit == ManagerIdle /\ LogicIdle /\ CacheInit

InitializeExample ==
  \E config \in ExampleConfigs,
     gameWords \in {<<>>} \cup {<<w>> : w \in Range(defaultWords)} :
     \E roles \in (IF validateGameConfig(config.totalPlayers,
                                         config.undercover,
                                         config.mrWhite) = "valid"
                      /\ gameWords # <<>>
                   THEN ShuffleOutcomes(RoleArray(config.totalPlayers,
                                                  config.undercover,
                                                  config.mrWhite))
                   ELSE {<<>>}) :
        /\ lastCall' = [op |-> "initializeGame", config |-> config,
                        words |-> gameWords,
                        result |-> GameService_initializeGame(config, <<>>,
                                                              gameWords, roles)]
        /\ UNCHANGED <<roster, cacheVars, managerVars>>

ExampleNext == InitializeExample

SpecExample == ExampleInit /\ [][ExampleNext]_vars

\* ------------------------------------------------------------------------
\* A larger table at the vote: the smallest games that hold an undercover
\* and Mr. White together (5 players), dealt and moved on to the vote
\* ------------------------------------------------------------------------
MaxTablePlayers == 5
MaxTableCalls == 3

TableConfigs ==
  {c \in {[totalPlayers |-> t, undercover |-> 1, mrWhite |-> 1] :
            t \in 5..MaxTablePlayers} :
     validateGameConfig(c.totalPlayers, c.undercover, c.mrWhite) = "valid"}

TableSessions ==
  UNION {
    {LET r == GameService_initializeGame(c, <<>>, <<defaultWords[1]>>, roles)
         d == Dealt(Session(r.state, r.heap))
         v == GameActionService_transitionToPhase(d.state, d.heap, "voting")
     IN Session(v.state, v.heap) :
       roles \in ShuffleOutcomes(RoleArray(c.totalPlayers, c.undercover,
                                           c.mrWhite))} :
    c \in TableConfigs}

TableInit ==
  /\ ManagerInit(TableSessions)
  /\ LogicIdle
  /\ CacheInit

TableNext ==
  \/ SelectPlayerForElimination(MaxTableCalls)
  \/ EliminatePlayer(MaxTableCalls)
  \/ ConfirmElimination(MaxTableCalls)

SpecTable == TableInit /\ [][TableNext]_vars

\* ------------------------------------------------------------------------
\* Card selection part-way through: games of round 1 and of round 2 in which
\* the first players have already taken their cards
\* ------------------------------------------------------------------------
MaxRevealCalls == 3

\* the next k players take the next card each and reveal their word; in
\* round 1 they enter a name in between
RECURSIVE DealSome(_, _)
DealSome(s, k) ==
  IF k = 0 \/ s.state.phase # "card-selection" THEN s
  ELSE LET i == s.state.currentPlayerIndex
           a == GameActionService_selectCard(s.state, s.heap, i, <<>>)
           b == IF s.state.round = 1
                THEN GameActionService_submitPlayerName(a.state, a.heap,
                                                        <<"B", Letters[i + 1]>>)
                ELSE a
           c == GameActionService_revealWordNext(b.state, b.heap)
       IN DealSome(Session(c.state, c.heap), k - 1)

\* a second round at its start: a game decided by the vote on player 1 and
\* continued with the same players (GameService.startNewRound)
NewRoundSessions ==
  UNION {
    {LET n == GameService_startNewRound(s.state, s.heap, <<defaultWords[1]>>,
                                        roles)
     IN Session(n.state, n.heap) :
       roles \in RoleChoices(Len(s.state.players), s.state.undercoverCount,
                             s.state.mrWhiteCount)} :
    s \in {t \in VotedSessions : t.state.phase = "game-over"}}

RevealSessions ==
  {DealSome(s, k) : s \in NewGameSessions \cup NewRoundSessions,
                    k \in 0..(MaxPlayers - 1)}

RevealInit ==
  /\ ManagerInit({s \in RevealSessions : s.state.phase = "card-selection"})
  /\ LogicIdle
  /\ CacheInit

RevealNext ==
  \/ SelectCard(MaxRevealCalls)
  \/ SubmitPlayerName(MaxRevealCalls)
  \/ RevealWordNext(MaxRevealCalls)

SpecReveal == RevealInit /\ [][RevealNext]_vars

\* ------------------------------------------------------------------------
\* GameStateManager.eliminatePlayer(playerId): an async method of two
\* dispatches with an await between them. executeAction has no await of its
\* own, so each dispatch runs to completion when it is called; the caller is
\* suspended at its await and resumed from the microtask queue, first in
\* first out. Other calls may start while it is suspended.
\* ------------------------------------------------------------------------
MaxAsyncCalls == 4

\* eliminatePlayer(playerId) up to its first await: the dispatch of
\* selectPlayerForElimination has run and the call is suspended
EliminatePlayerStarts ==
  \E playerId \in IdInputs :
     /\ runAction("selectPlayerForElimination", playerId,
                  GameActionService_selectPlayerForElimination(state, heap,
                                                               playerId),
                  MaxAsyncCalls)
     /\ awaiting' = Append(awaiting, [playerId |-> playerId,
                                      selected |-> lastResult'.success])
     /\ resolved' = resolved

\* the call suspended longest resumes: it returns false if its selection
\* failed, else dispatches eliminatePlayer and resolves to that success
EliminatePlayerResumes ==
  /\ awaiting # <<>>
  /\ awaiting' = Tail(awaiting)
  /\ LET call == Head(awaiting)
     IN IF call.selected
        THEN /\ runAction("eliminatePlayer", Null,
                          GameActionService_eliminatePlayer(state, heap),
                          MaxAsyncCalls)
             /\ resolved' =
                  Append(resolved,
                         [playerId |-> call.playerId,
                          value |-> lastResult'.success,
                          eliminated |->
                            IF lastResult'.success
                            THEN heap'[state'.eliminatedPlayer].id
                            ELSE Null])
        ELSE /\ resolved' = Append(resolved, [playerId |-> call.playerId,
                                              value |-> FALSE,
                                              eliminated |-> Null])
             /\ UNCHANGED <<state, heap, history, notified, lastEvent, lastOp,
                            lastResult, unplayed, calls, deepHist, committed,
                            pre, inFlight, eventLog, logicVars, cacheVars>>

AsyncInit ==
  /\ ManagerInit(VotingSessions)
  /\ LogicIdle
  /\ CacheInit

AsyncNext ==
  \/ EliminatePlayerStarts
  \/ EliminatePlayerResumes
  \/ SelectPlayerForElimination(MaxAsyncCalls)

SpecAsync == AsyncInit /\ [][AsyncNext]_vars

\* ------------------------------------------------------------------------
\* Votes until the game is over: round after round of select, eliminate and
\* confirm, with the phase changes in between
\* ------------------------------------------------------------------------
MaxEndCalls == 4

EndInit ==
  /\ ManagerInit(VotingSessions \cup SecondRoundSessions)
  /\ LogicIdle
  /\ CacheInit

EndNext ==
  \/ SelectPlayerForElimination(MaxEndCalls)
  \/ EliminatePlayer(MaxEndCalls)
  \/ ConfirmElimination(MaxEndCalls)
  \/ TransitionToPhase(MaxEndCalls)

SpecEnd == EndInit /\ [][EndNext]_vars

\* ------------------------------------------------------------------------
\* Changing the words of a game in play: games dealt on a pair that has been
\* played since, so that the store hands out another pair
\* ------------------------------------------------------------------------
MaxWordCalls == 3

\* new games on the second pair of the default list, and the same games at
\* the vote
WordSessions ==
  UNION {
    UNION {
      LET r == GameService_initializeGame(c, <<>>, <<defaultWords[2]>>, roles)
          d == Dealt(Session(r.state, r.heap))
          v == GameActionService_transitionToPhase(d.state, d.heap, "voting")
      IN {Session(r.state, r.heap), Session(v.state, v.heap)} :
        roles \in RoleChoices(c.totalPlayers, c.undercover, c.mrWhite)} :
    c \in ValidConfigs}

WordInit ==
  /\ ManagerInit(WordSessions)
  /\ LogicIdle
  /\ CacheInit

WordNext ==
  \/ RefreshWords(MaxWordCalls)
  \/ StartNewRound(MaxWordCalls)
  \/ Undo(MaxWordCalls)

SpecWords == WordInit /\ [][WordNext]_vars

\* ------------------------------------------------------------------------
\* Card selection on its own: a new game, the three card-selection actions
\* and undo, every call with an input the dispatcher accepts
\* ------------------------------------------------------------------------
MaxCardCalls == 8

CardsInit ==
  /\ ManagerInit(NewGameSessions)
  /\ LogicIdle
  /\ CacheInit

CardPicked == SelectCard(MaxCardCalls) /\ lastResult'.success
NameEntered == SubmitPlayerName(MaxCardCalls) /\ lastResult'.success
WordRevealed == RevealWordNext(MaxCardCalls) /\ lastResult'.success
Undone == Undo(MaxCardCalls) /\ lastResult'.success

CardsNext ==
  \/ CardPicked
  \/ NameEntered
  \/ WordRevealed
  \/ Undone

SpecCards == CardsInit /\ [][CardsNext]_vars

\* ------------------------------------------------------------------------
\* Properties
\* ------------------------------------------------------------------------
ActionTypes ==
  {"selectCard", "submitPlayerName", "revealWordNext",
   "selectPlayerForElimination", "eliminatePlayer", "confirmElimination",
   "processMrWhiteGuess", "startNewGame", "startNewRound", "resetGame",
   "transitionToPhase", "refreshWords", "unknown"}

\* the roster of the current state, as objects
CurrentPlayers == Deref(heap, state.players)

\* C1: in every state reachable by dispatched actions and undo(), no two
\* players hold the same cardIndex other than -1.
C1_CardExclusive ==
  \A i, j \in DOMAIN CurrentPlayers :
     (i # j /\ CurrentPlayers[i].cardIndex # 0 - 1)
       => CurrentPlayers[i].cardIndex # CurrentPlayers[j].cardIndex

\* C2: after every committed transition, winner != null implies
\* phase == game-over.
C2_WinnerImpliesGameOver ==
  state.winner # NoWinner => state.phase = "game-over"

\* C3: a dispatch that returns success = false leaves the state deep-equal
\* to the state before it (players' fields included) and pushes nothing to
\* the history.
C3_FailedDispatchChangesNothing ==
  [][ (calls' = calls + 1 /\ lastOp'.type \in ActionTypes
         /\ ~lastResult'.success)
      => /\ state' = state
         /\ DeepState(state', heap') = DeepState(state, heap)
         /\ \A i \in DOMAIN history :
               DeepState(history[i], heap') = DeepState(history[i], heap)
         /\ history' = history ]_vars

C3_Witness ==
  /\ lastOp.type = "selectCard"
  /\ ~lastResult.success
  /\ lastResult.error = "Card is already taken"
  /\ \E i \in DOMAIN CurrentPlayers : CurrentPlayers[i].cardIndex = lastOp.arg

\* C4: on a freshly constructed manager (canonical setup state, no players)
\* executeAction('startNewGame', config) with a valid configuration and an
\* available word pair succeeds and commits phase card-selection, round 1
\* and config.totalPlayers players.
C4_StartNewGameFromFresh ==
  ( /\ lastOp.type = "startNewGame"
    /\ lastOp.arg \in ValidConfigs
    /\ pre = DeepState(GameService_resetGame, <<>>)
    /\ unplayed # {} )
  => /\ lastResult.success
     /\ state.phase = "card-selection"
     /\ state.round = 1
     /\ Len(state.players) = lastOp.arg.totalPlayers

\* C5: if a successful action moved the manager from S to S', an
\* immediately following undo() returns true and makes the current state
\* equal to S in every field, each player's cardIndex, name, hasRevealed and
\* isEliminated included.
C5_UndoRestoresPreviousState ==
  [][ (lastOp.type \in ActionTypes /\ lastResult.success
         /\ calls' = calls + 1 /\ lastOp'.type = "undo")
      => (lastResult'.success /\ DeepState(state', heap') = pre) ]_vars

\* C6: no action mutates a committed state in place: every snapshot in the
\* history, and the previousState handed to subscribers, has the field and
\* player values it had when it was committed.
C6_CommittedStatesImmutable ==
  /\ \A i \in DOMAIN history : DeepState(history[i], heap) = deepHist[i]
  /\ notified # <<>>
       => DeepState(notified[1].previousState, heap)
            = notified[1].previousAsCommitted

\* positions of the players of `players` that are not Mr. White
NonMrWhite(players) == {i \in DOMAIN players : players[i].role # "mrwhite"}

\* `order` holds every player of `players` exactly once
IsPermutationOf(order, players) ==
  /\ Len(order) = Len(players)
  /\ \A i \in DOMAIN players :
        Cardinality({j \in DOMAIN order : order[j] = players[i]}) = 1

\* C7: for every non-empty roster, whatever start player and direction are
\* cached, getDescriptionPhaseOrder returns a permutation of the roster whose
\* first player is not mrwhite whenever the roster has a non-mrwhite player.
C7_DescriptionOrderPermutation ==
  (lastCall.op = "getDescriptionPhaseOrder" /\ roster # <<>>)
  => /\ IsPermutationOf(lastCall.result, roster)
     /\ NonMrWhite(roster) # {} => lastCall.result[1].role # "mrwhite"

\* position of player p in an order
PositionIn(order, p) == CHOOSE j \in DOMAIN order : order[j] = p

\* C8: getVotingPhaseOrder is the description order with all non-eliminated
\* players first and all eliminated players last, each block in its relative
\* description order; with nobody eliminated it is the description order.
C8_VotingOrderPartition ==
  lastCall.op = "getVotingPhaseOrder"
  => LET d == DescriptionOrderFrom(roster, startPlayerId, isForward)
         v == lastCall.result
     IN /\ IsPermutationOf(v, d)
        /\ \A i, j \in DOMAIN v :
              i < j => /\ v[i].isEliminated => v[j].isEliminated
                       /\ v[i].isEliminated = v[j].isEliminated
                            => PositionIn(d, v[i]) < PositionIn(d, v[j])
        /\ (\A i \in DOMAIN roster : ~roster[i].isEliminated) => v = d

C8_Witness ==
  /\ lastCall.op = "getVotingPhaseOrder"
  /\ \E i, j \in DOMAIN roster :
        roster[i].isEliminated /\ ~roster[j].isEliminated
  /\ lastCall.result # DescriptionOrderFrom(roster, startPlayerId, isForward)

Active == {i \in DOMAIN roster : ~roster[i].isEliminated}
ActiveOf(role) == {i \in Active : roster[i].role = role}
SoleMrWhite == Cardinality(Active) = 1 /\ Active = ActiveOf("mrwhite")

\* C9: checkWinConditions returns mrwhite if and only if exactly one player
\* is active and that player's role is mrwhite.
C9_MrWhiteWinsIffSoleSurvivor ==
  lastCall.op = "checkWinConditions"
  => (lastCall.result = "mrwhite" <=> SoleMrWhite)

C9_Witness ==
  /\ lastCall.op = "checkWinConditions"
  /\ lastCall.result = "mrwhite"
  /\ Len(roster) > 1

\* C10: when the mrwhite-sole-survivor case does not apply, checkWinConditions
\* returns civilian exactly when no undercover and no mrwhite is active, null
\* when no undercover is active but a mrwhite is, undercover exactly when at
\* least one undercover is active, active undercover >= active civilians and
\* no mrwhite is active, and null otherwise.
C10_EliminationRules ==
  (lastCall.op = "checkWinConditions" /\ ~SoleMrWhite)
  => LET c == Cardinality(ActiveOf("civilian"))
         u == Cardinality(ActiveOf("undercover"))
         m == Cardinality(ActiveOf("mrwhite"))
         w == lastCall.result
     IN /\ w = "civilian" <=> (u = 0 /\ m = 0)
        /\ (u = 0 /\ m > 0) => w = NoWinner
        /\ w = "undercover" <=> (u >= 1 /\ u >= c /\ m = 0)
        /\ w \in {"civilian", "undercover", NoWinner}

C10_Witness ==
  /\ lastCall.op = "checkWinConditions"
  /\ lastCall.result = "undercover"
  /\ Cardinality(ActiveOf("civilian")) = Cardinality(ActiveOf("undercover"))
  /\ ActiveOf("civilian") # {}

\* the last call was processMrWhiteGuess with a non-blank guess
GuessSubmitted ==
  lastOp.type = "processMrWhiteGuess" /\ trim(lastOp.arg) # <<>>

\* that guess is the civilian word of the state it was made in, after
\* trimming and case-folding
GuessMatches ==
  toLowerCase(trim(lastOp.arg)) = toLowerCase(trim(pre.gameWords.civilian))

\* C11: processMrWhiteGuess with a non-blank guess equal to the civilian word
\* after trimming and case-folding sets winner to mrwhite and phase to
\* game-over, whatever the roster is.
C11_CorrectGuessWins ==
  (GuessSubmitted /\ GuessMatches)
  => /\ lastResult.success
     /\ state.winner = "mrwhite"
     /\ state.phase = "game-over"

C11_Witness ==
  /\ GuessSubmitted /\ GuessMatches
  /\ lastOp.arg # pre.gameWords.civilian
  /\ state.winner = "mrwhite"
  /\ \E i \in DOMAIN CurrentPlayers : CurrentPlayers[i].role = "undercover"

\* C12: processMrWhiteGuess with a non-blank guess that does not match the
\* civilian word leaves the winner checkWinConditions gives for the roster.
C12_WrongGuessFallsThrough ==
  (GuessSubmitted /\ ~GuessMatches /\ lastResult.success)
  => state.winner = checkWinConditions(CurrentPlayers)

\* the configuration rule: civilians >= 2, at least one special role, and
\* civilians outnumber the special roles
Accepted(c) ==
  LET civilians == c.totalPlayers - c.undercover - c.mrWhite
  IN /\ civilians >= 2
     /\ c.undercover + c.mrWhite >= 1
     /\ civilians > c.undercover + c.mrWhite

WithRole(players, role) == {i \in DOMAIN players : players[i].role = role}

\* C13: for every configuration validateGameConfig accepts and every shuffle
\* outcome, generatePlayers returns totalPlayers players with ids
\* 1..totalPlayers, `undercover` of them undercover, `mrWhite` of them mrwhite,
\* the rest civilian, each with the word of its role ("" for mrwhite).
C13_RoleDistribution ==
  (lastCall.op = "generatePlayers"
     /\ validateGameConfig(lastCall.config.totalPlayers,
                           lastCall.config.undercover,
                           lastCall.config.mrWhite) = "valid")
  => LET p == lastCall.result
         c == lastCall.config
     IN /\ Len(p) = c.totalPlayers
        /\ \A i \in DOMAIN p : p[i].id = i
        /\ Cardinality(WithRole(p, "undercover")) = c.undercover
        /\ Cardinality(WithRole(p, "mrwhite")) = c.mrWhite
        /\ Cardinality(WithRole(p, "civilian"))
             = c.totalPlayers - c.undercover - c.mrWhite
        /\ \A i \in DOMAIN p :
              p[i].word = IF p[i].role = "civilian" THEN lastCall.words.civilian
                          ELSE IF p[i].role = "undercover"
                               THEN lastCall.words.undercover
                          ELSE <<>>

C13_Witness ==
  /\ lastCall.op = "generatePlayers"
  /\ lastCall.config = [totalPlayers |-> 5, undercover |-> 1, mrWhite |-> 1]
  /\ lastCall.result[1].role = "mrwhite"
  /\ lastCall.result[5].role = "undercover"

StateUntouched == DeepState(state, heap) = pre

\* the legal phase transitions
LegalTransitions ==
  { <<"setup", "card-selection">>,
    <<"card-selection", "description">>,
    <<"description", "voting">>,
    <<"voting", "description">>,
    <<"voting", "game-over">>,
    <<"voting", "mr-white-guess">>,
    <<"mr-white-guess", "voting">>,
    <<"mr-white-guess", "game-over">>,
    <<"game-over", "setup">>,
    <<"game-over", "card-selection">> }

\* C15: transitionToPhase(target) succeeds only when (current phase, target)
\* is a legal transition; every other request fails and leaves the state
\* unchanged.
C15_TransitionTable ==
  (lastOp.type = "transitionToPhase"
     /\ <<pre.phase, lastOp.arg>> \notin LegalTransitions)
  => (~lastResult.success /\ StateUntouched)

\* the phase each gated action belongs to
PhaseOf(actionType) ==
  IF actionType \in {"selectCard", "submitPlayerName", "revealWordNext"}
  THEN "card-selection"
  ELSE IF actionType \in {"selectPlayerForElimination", "eliminatePlayer",
                          "confirmElimination"}
       THEN "voting"
  ELSE IF actionType = "processMrWhiteGuess" THEN "mr-white-guess"
  ELSE "game-over"

GatedActions ==
  {"selectCard", "submitPlayerName", "revealWordNext",
   "selectPlayerForElimination", "eliminatePlayer", "confirmElimination",
   "processMrWhiteGuess", "startNewRound"}

\* C16: every action dispatched outside its phase is rejected with the state
\* unchanged: selectCard, submitPlayerName, revealWordNext outside
\* card-selection; selectPlayerForElimination, eliminatePlayer,
\* confirmElimination outside voting; processMrWhiteGuess outside the
\* Mr. White guess step; startNewRound outside game-over.
C16_PhaseGating ==
  (lastOp.type \in GatedActions /\ pre.phase # PhaseOf(lastOp.type))
  => (~lastResult.success /\ StateUntouched)

\* C17: from every state of the manager, the initial setup state included,
\* executeAction('resetGame') succeeds and commits the canonical setup state.
C17_ResetAlwaysSucceeds ==
  lastOp.type = "resetGame"
  => /\ lastResult.success
     /\ state = GameService_resetGame

\* C19: for every state the manager can reach, importState(exportState())
\* returns true and leaves the current state equal to the exported state.
C19_ExportImportRoundTrip ==
  (lastOp.type = "importState" /\ lastOp.arg = [parses |-> TRUE, state |-> pre])
  => (lastResult.success /\ StateUntouched)

\* a state value that breaks an invariant of the session state: two players
\* on one card, a winner outside game-over, or civilians not outnumbering
\* the special roles
BreaksInvariant(x) ==
  \/ \E i, j \in DOMAIN x.players :
        /\ i # j
        /\ x.players[i].cardIndex # 0 - 1
        /\ x.players[i].cardIndex = x.players[j].cardIndex
  \/ x.winner # NoWinner /\ x.phase # "game-over"
  \/ Cardinality(WithRole(x.players, "civilian"))
       <= Cardinality(WithRole(x.players, "undercover"))
            + Cardinality(WithRole(x.players, "mrwhite"))

\* C20: importState returns false, and leaves the current state and the
\* history unchanged, for malformed text and for any serialized state that
\* breaks an invariant of the session state.
C20_ImportRejectsInvalid ==
  [][ (calls' = calls + 1 /\ lastOp'.type = "importState"
         /\ (~lastOp'.arg.parses \/ BreaksInvariant(lastOp'.arg.state)))
      => /\ ~lastResult'.success
         /\ state' = state
         /\ DeepState(state', heap') = DeepState(state, heap)
         /\ history' = history ]_vars

\* C18: dispatch calls are serialized: an executeAction issued from inside a
\* subscriber callback is never executed while the dispatch that triggered
\* the callback is still in flight, so a commit is followed by its own
\* action_executed event before any other action commits.
C18_DispatchSerialized ==
  /\ Len(inFlight) <= 1
  /\ \A i, j \in 1..Len(eventLog) :
        (i < j /\ eventLog[i].kind = "commit" /\ eventLog[j].kind = "commit")
        => \E k \in (i + 1)..(j - 1) :
              eventLog[k] = [kind |-> "action_executed", id |-> eventLog[i].id]

\* ids of the players of a deep state that are eliminated
EliminatedIds(x) ==
  {x.players[i].id : i \in {j \in DOMAIN x.players : x.players[j].isEliminated}}

\* operations that end a game or replace its roster
GameEnding == {"startNewGame", "startNewRound", "resetGame", "importState"}

\* C21: within one game, once a player's isEliminated is true it is true in
\* every later state, whatever is dispatched (undo and refreshWords included).
C21_EliminationMonotonic ==
  [][ lastOp'.type \notin GameEnding
      => EliminatedIds(DeepState(state, heap))
           \subseteq EliminatedIds(DeepState(state', heap')) ]_vars

\* C22: a successful startNewGame or startNewRound resets the cached start
\* player and direction, so that the first description order of the new game
\* or round draws its start player from the new roster.
C22_NewRoundResetsOrderCache ==
  [][ (calls' = calls + 1 /\ lastOp'.type \in {"startNewGame", "startNewRound"}
         /\ lastResult'.success)
      => (startPlayerId' = Null /\ isForward' = TRUE) ]_vars

OrderIds(order) == [i \in DOMAIN order |-> order[i].id]

IsOrderCall(call) ==
  call.op \in {"getDescriptionPhaseOrder", "getVotingPhaseOrder"}

\* ids of `ids`, in their order, whose player of the current state is
\* eliminated (or not)
IdsByStatus(ids, eliminated) ==
  LET players == Deref(heap, state.players)
      Status(id) ==
        \E i \in DOMAIN players :
           players[i].id = id /\ players[i].isEliminated
  IN Filter(ids, LAMBDA id : Status(id) = eliminated)

\* C23: within a round the order is stable: with no reset of the ordering
\* cache in between, every description order of the session has the same
\* sequence of ids as the order computed before it, whatever was selected,
\* eliminated or confirmed in between, and every voting order is that same
\* sequence with the active players first and the eliminated ones last.
C23_OrderStableWithinRound ==
  [][ (IsOrderCall(lastCall) /\ IsOrderCall(lastCall') /\ calls' = calls)
      => /\ OrderIds(lastCall'.descriptionOrder)
              = OrderIds(lastCall.descriptionOrder)
         /\ lastCall'.op = "getVotingPhaseOrder"
            => OrderIds(lastCall'.result)
                 = IdsByStatus(OrderIds(lastCall.descriptionOrder), FALSE)
                     \o IdsByStatus(OrderIds(lastCall.descriptionOrder), TRUE)
    ]_vars

\* a voting order computed after a player was voted out, which moved that
\* player behind players that follow it in the description order
C23_Witness ==
  /\ lastCall.op = "getVotingPhaseOrder"
  /\ lastOp.type \in {"eliminatePlayer", "confirmElimination"}
  /\ \E i \in DOMAIN lastCall.result : lastCall.result[i].isEliminated
  /\ OrderIds(lastCall.result) # OrderIds(lastCall.descriptionOrder)

\* C24: after a successful startNewRound the phase is card-selection, the
\* round is the previous round plus 1, every player keeps its id and name and
\* has isEliminated = false, hasRevealed = false and cardIndex = -1, each role
\* has as many players as in the previous roster, and winner,
\* selectedPlayerToEliminate and eliminatedPlayer are null.
C24_NewRoundState ==
  (lastOp.type = "startNewRound" /\ lastResult.success)
  => LET now == DeepState(state, heap)
     IN /\ now.phase = "card-selection"
        /\ now.round = pre.round + 1
        /\ Len(now.players) = Len(pre.players)
        /\ \A i \in DOMAIN now.players :
              /\ now.players[i].id = pre.players[i].id
              /\ now.players[i].name = pre.players[i].name
              /\ ~now.players[i].isEliminated
              /\ ~now.players[i].hasRevealed
              /\ now.players[i].cardIndex = 0 - 1
        /\ \A role \in {"civilian", "undercover", "mrwhite"} :
              Cardinality(WithRole(now.players, role))
                = Cardinality(WithRole(pre.players, role))
        /\ now.winner = NoWinner
        /\ now.selectedPlayerToEliminate = Null
        /\ now.eliminatedPlayer = <<>>

\* selectCard(index) was dispatched and reached GameActionService.selectCard
SelectCardRan ==
  /\ lastOp.type = "selectCard"
  /\ GameActionService_validateAction(pre, "selectCard").isValid

CardHeld(x, cardIndex) ==
  \E i \in DOMAIN x.players : x.players[i].cardIndex = cardIndex

\* C25: selectCard(index) fails with 'Card is already taken' and leaves the
\* state unchanged whenever some player already holds cardIndex = index;
\* otherwise it sets the current player's cardIndex and selectedCard to index.
C25_SelectCard ==
  SelectCardRan
  => IF CardHeld(pre, lastOp.arg)
     THEN /\ ~lastResult.success
          /\ lastResult.error = "Card is already taken"
          /\ StateUntouched
     ELSE /\ lastResult.success
          /\ state.selectedCard = lastOp.arg
          /\ CurrentPlayers[pre.currentPlayerIndex + 1].cardIndex = lastOp.arg

\* a pick of a card another player holds
C25_Witness ==
  /\ SelectCardRan
  /\ CardHeld(pre, lastOp.arg)
  /\ lastResult.error = "Card is already taken"

\* C26: the history never holds more than 10 states: a commit made when it
\* holds 10 drops the oldest one; canUndo() is true exactly when the history
\* holds more than one state; undo() returns false and changes nothing when
\* canUndo() is false.
C26_HistoryBounded ==
  /\ [](Len(history) <= 10)
  /\ [](canUndo <=> Len(history) > 1)
  /\ [][ /\ (calls' = calls + 1 /\ lastOp'.type # "undo" /\ lastResult'.success)
            => history' = IF Len(history) = 10
                          THEN Tail(history) \o <<state'>>
                          ELSE history \o <<state'>>
         /\ (calls' = calls + 1 /\ lastOp'.type = "undo" /\ ~canUndo)
            => /\ ~lastResult'.success
               /\ state' = state
               /\ heap' = heap
               /\ history' = history ]_vars

\* a commit that dropped the oldest entry of a full history: the state the
\* manager was constructed on, with nobody staged, is gone
C26_Witness ==
  /\ Len(history) = 10
  /\ history[1].selectedPlayerToEliminate # Null
  /\ lastOp.type = "selectPlayerForElimination"
  /\ lastResult.success

\* s, s+1, ..., N, 1, ..., s-1 (forward) or s, s-1, ..., 1, N, ..., s+1
Rotation(N, s, forward) ==
  [i \in 1..N |->
     IF forward THEN ((s - 1 + (i - 1)) % N) + 1
     ELSE ((s - 1 - (i - 1) + N) % N) + 1]

C28_DocumentedExample ==
  (/\ lastCall.op = "initializeGame"
   /\ lastCall.config = [totalPlayers |-> 6, undercover |-> 2, mrWhite |-> 1]
   /\ lastCall.words # <<>>)
  => /\ lastCall.result.thrown = ""
     /\ lastCall.result.state.phase = "card-selection"
     /\ Len(lastCall.result.state.players) = 6

\* the player just voted out is Mr. White
MrWhiteVotedOut ==
  LET out == DeepState(state, heap).eliminatedPlayer
  IN out # <<>> /\ out[1].role = "mrwhite"

GuessPrompted ==
  \/ lastResult.openModal = "showMrWhiteGuessModal"
  \/ state.phase = "mr-white-guess"

\* C29: when the player eliminated by a vote is Mr. White, that player gets
\* the guess step before the game continues: eliminatePlayer asks for the
\* guess prompt or leaves the game undecided, and the confirmation that
\* follows asks for the prompt (or enters the guess phase).
C29_MrWhiteGetsGuess ==
  (lastResult.success /\ MrWhiteVotedOut)
  => /\ lastOp.type = "eliminatePlayer"
          => (GuessPrompted \/ state.winner = NoWinner)
     /\ lastOp.type = "confirmElimination" => GuessPrompted

\* eliminatePlayer was dispatched and reached GameActionService.eliminatePlayer
EliminatePlayerRan ==
  /\ lastOp.type = "eliminatePlayer"
  /\ GameActionService_validateAction(pre, "eliminatePlayer").isValid

\* C30: eliminatePlayer fails with 'No player selected for elimination' when
\* nothing is staged; otherwise the staged player has isEliminated = true,
\* eliminatedPlayer is that player, selectedPlayerToEliminate is null, winner
\* equals checkWinConditions of the new roster, and phase is game-over
\* exactly when that winner is non-null.
C30_EliminatePlayer ==
  EliminatePlayerRan
  => IF pre.selectedPlayerToEliminate = Null
     THEN /\ ~lastResult.success
          /\ lastResult.error = "No player selected for elimination"
     ELSE LET now == DeepState(state, heap)
          IN /\ lastResult.success
             /\ \E i \in DOMAIN now.players :
                   /\ now.players[i].id = pre.selectedPlayerToEliminate
                   /\ now.players[i].isEliminated
                   /\ now.eliminatedPlayer = <<now.players[i]>>
             /\ now.selectedPlayerToEliminate = Null
             /\ now.winner = checkWinConditions(now.players)
             /\ now.phase = "game-over" <=> now.winner # NoWinner

\* the Mr. White guess applies: the player voted out is an undercover, some
\* Mr. White is still active and no winner is set
GuessApplies(x) ==
  /\ x.eliminatedPlayer # <<>>
  /\ x.eliminatedPlayer[1].role = "undercover"
  /\ ActiveMrWhite(x.players)
  /\ x.winner = NoWinner

\* C31: a successful eliminatePlayer requests the Mr. White guess prompt
\* exactly when the eliminated player is undercover, some mrwhite is still
\* active and no winner was set; otherwise the elimination-reveal prompt.
C31_EliminationPrompt ==
  (lastOp.type = "eliminatePlayer" /\ lastResult.success)
  => lastResult.openModal =
       IF GuessApplies(DeepState(state, heap))
       THEN "showMrWhiteGuessModal" ELSE "showEliminationModal"

\* the undercover was voted out while Mr. White is in the game
C31_Witness ==
  /\ lastOp.type = "eliminatePlayer"
  /\ lastResult.success
  /\ GuessApplies(DeepState(state, heap))
  /\ lastResult.openModal = "showMrWhiteGuessModal"

\* C32: after a successful confirmElimination the phase is mr-white-guess
\* if the Mr. White guess applies, otherwise game-over if a winner is set,
\* otherwise description.
C32_ConfirmRoutes ==
  (lastOp.type = "confirmElimination" /\ lastResult.success)
  => state.phase =
       IF GuessApplies(DeepState(state, heap)) THEN "mr-white-guess"
       ELSE IF state.winner # NoWinner THEN "game-over"
       ELSE "description"

\* C33: when confirmElimination returns the game to description with no
\* winner, round is exactly the previous round plus 1; round is never below 1
\* and no operation lowers it.
C33_RoundAdvances ==
  /\ state.round >= 1
  /\ state.round >= pre.round
  /\ (/\ lastOp.type = "confirmElimination"
      /\ lastResult.success
      /\ pre.eliminatedPlayer # <<>>
      /\ state.phase = "description"
      /\ state.winner = NoWinner)
     => state.round = pre.round + 1

\* C34: revealWordNext fails with 'No card selected' when selectedCard is
\* null; otherwise it sets hasRevealed for the current player and, if that
\* player is not the last one, increases currentPlayerIndex by exactly 1 and
\* clears selectedCard with the phase unchanged, and if it is the last one
\* sets phase to description with currentPlayerIndex 0 and selectedCard null.
C34_RevealWordNext ==
  lastOp.type = "revealWordNext"
  => IF pre.selectedCard = Null
     THEN ~lastResult.success /\ lastResult.error = "No card selected"
     ELSE /\ lastResult.success
          /\ CurrentPlayers[pre.currentPlayerIndex + 1].hasRevealed
          /\ state.selectedCard = Null
          /\ IF pre.currentPlayerIndex < Len(pre.players) - 1
             THEN /\ state.currentPlayerIndex = pre.currentPlayerIndex + 1
                  /\ state.phase = pre.phase
             ELSE /\ state.currentPlayerIndex = 0
                  /\ state.phase = "description"

\* the last player of a game with more than one revealed the word, which
\* ended card selection
C34_Witness ==
  /\ lastOp.type = "revealWordNext"
  /\ lastResult.success
  /\ pre.selectedCard # Null
  /\ pre.currentPlayerIndex = Len(pre.players) - 1
  /\ pre.currentPlayerIndex > 0
  /\ pre.phase = "card-selection"
  /\ state.phase = "description"
  /\ CurrentPlayers[pre.currentPlayerIndex + 1].hasRevealed

\* C36: the name-entry step exists only in round 1: a successful selectCard
\* requests the name-entry prompt exactly when round = 1 and the word-reveal
\* prompt otherwise, and a successful revealWordNext by a non-last player
\* requests the turn prompt exactly when round > 1.
C36_NameEntryOnlyInRoundOne ==
  /\ (lastOp.type = "selectCard" /\ lastResult.success)
     => lastResult.openModal =
          IF pre.round = 1 THEN "showNameModal" ELSE "showWordModal"
  /\ (/\ lastOp.type = "revealWordNext"
      /\ lastResult.success
      /\ pre.currentPlayerIndex < Len(pre.players) - 1)
     => (lastResult.openModal = "showTurnModal" <=> pre.round > 1)

\* in round 2 a player who is not the last picked a card (word-reveal prompt)
\* and passed the device on (turn prompt)
C36_Witness ==
  /\ lastOp.type = "revealWordNext"
  /\ lastResult.success
  /\ pre.round > 1
  /\ pre.currentPlayerIndex < Len(pre.players) - 1
  /\ lastResult.openModal = "showTurnModal"

\* the player with this id is missing from the roster or already eliminated
CannotEliminate(players, playerId) ==
  \A i \in DOMAIN players :
     players[i].id = playerId => players[i].isEliminated

\* C35: a player who is already eliminated, or an id that names no player,
\* is never staged or eliminated: selectPlayerForElimination fails with
\* 'Player cannot be eliminated' leaving the state unchanged, and
\* eliminatePlayer never succeeds on a player whose isEliminated is already
\* true, under any sequence of actions and undo.
C35_EliminatedStayOut ==
  /\ (/\ lastOp.type = "selectPlayerForElimination"
      /\ CannotEliminate(pre.players, lastOp.arg))
     => /\ ~lastResult.success
        /\ lastResult.error = "Player cannot be eliminated"
        /\ StateUntouched
  /\ (lastOp.type = "eliminatePlayer" /\ lastResult.success)
     => ~CannotEliminate(pre.players, pre.selectedPlayerToEliminate)

\* C37: GameStateManager.eliminatePlayer(playerId) is atomic with respect
\* to other dispatches: whenever it resolves to true, the player eliminated
\* by it is playerId, even when other such calls or another
\* selectPlayerForElimination start before it has resolved.
C37_EliminatePlayerAtomic ==
  \A i \in DOMAIN resolved :
     resolved[i].value => resolved[i].eliminated = resolved[i].playerId

\* the players of a roster who are still in the game
ActiveCount(players) ==
  Cardinality({i \in DOMAIN players : ~players[i].isEliminated})

WordFor(role, gameWords) ==
  IF role = "civilian" THEN gameWords.civilian
  ELSE IF role = "undercover" THEN gameWords.undercover
  ELSE <<>>

\* C39: in every reachable state with a roster each player's word agrees
\* with its role and the bound word pair (the civilian word, the undercover
\* word, '' for mrwhite); this survives refreshWords, startNewRound and undo.
C39_WordsAgree ==
  \A i \in DOMAIN CurrentPlayers :
     CurrentPlayers[i].word = WordFor(CurrentPlayers[i].role, state.gameWords)

\* an undo took a game with an undercover player back across a change of
\* its word pair
C39_Witness ==
  /\ lastOp.type = "undo"
  /\ lastResult.success
  /\ pre.gameWords # state.gameWords
  /\ WithRole(CurrentPlayers, "undercover") # {}

\* C40: description is entered from card-selection only after every player
\* has taken a card and completed the reveal step: in every reachable state
\* whose phase is description or voting, every player has cardIndex # -1
\* and hasRevealed = true.
C40_AllDealtBeforeDescription ==
  state.phase \in {"description", "voting"}
  => \A i \in DOMAIN CurrentPlayers :
        /\ CurrentPlayers[i].cardIndex # 0 - 1
        /\ CurrentPlayers[i].hasRevealed

====
